---- MODULE Spec2Model ----
(***************************************************************************)
(* A model of the polling samples of this repository of Google Cloud       *)
(* Platform code samples.  The samples are independent programs: a run of  *)
(* the model is a run of one of them, named by the variable `sample`.      *)
(*                                                                         *)
(*   dataproc            src/dataproc/submit_job_to_cluster.py             *)
(*                                                                         *)
(* Python values are modelled with their type: a str is                    *)
(* [type |-> "str", val |-> <<characters>>], None is [type |-> "NoneType"].*)
(* A call of a cloud client (an RPC) either answers or raises; the cloud   *)
(* service is an environment that changes its resources on its own.        *)
(***************************************************************************)
EXTENDS Naturals, Sequences, FiniteSets

(***************************************************************************)
(* Bounds of the model.                                                    *)
(***************************************************************************)
\* longest zone string passed to get_region_from_zone
MaxZoneLen == 2
\* most generators Stream.stream creates in a run
MaxRuns == 2
\* most items a generator yields
MaxYield == 3
\* most get_operation calls of poll_operation_sample
MaxOpPolls == 3
\* the messages the occurrence subscription holds when test_pubsub starts
MaxBacklog == 1
\* the deliveries of a message after its first (Pub/Sub delivers at least once)
MaxRedeliver == 1
\* the longest KOKORO_JOB_NAME, in tokens
MaxJobNameLen == 5

(***************************************************************************)
(* Python values and the outcome of a call or of one loop iteration.       *)
(***************************************************************************)
NoneVal == [type |-> "NoneType"]
PyStr(s) == [type |-> "str", val |-> s]

Return(v) == [kind |-> "return", value |-> v]
Raise(t, a) == [kind |-> "raise", exc |-> [type |-> t, arg |-> a]]
Again == [kind |-> "again"]
NoExc == [type |-> "none"]
NoPoll == [kind |-> "none"]

\* the answer of an RPC, and its failure (any google.api_core error)
RpcOk(v) == [kind |-> "ok", value |-> v]
RpcFail == Raise("GoogleAPICallError", "rpc")

(***************************************************************************)
(* str.split(sep), list[:-1] and sep.join(list) on strings as sequences.   *)
(***************************************************************************)
RECURSIVE FirstIndex(_, _, _)
FirstIndex(s, ch, i) ==
  IF i > Len(s) THEN 0
  ELSE IF s[i] = ch THEN i
  ELSE FirstIndex(s, ch, i + 1)

RECURSIVE Split(_, _)
Split(s, sep) ==
  LET i == FirstIndex(s, sep, 1) IN
  IF i = 0 THEN <<s>>
  ELSE <<SubSeq(s, 1, i - 1)>> \o Split(SubSeq(s, i + 1, Len(s)), sep)

ButLast(l) == SubSeq(l, 1, Len(l) - 1)

RECURSIVE Join(_, _)
Join(l, sep) ==
  IF l = <<>> THEN <<>>
  ELSE IF Len(l) = 1 THEN l[1]
  ELSE l[1] \o <<sep>> \o Join(Tail(l), sep)

InvalidZoneMessage == "Invalid zone provided, please check your input."

\* zone.split of a value that is no str raises AttributeError, which the
\* except clause turns into ValueError; the slice and the join never raise
get_region_from_zone(zone) ==
  IF zone.type # "str"
  THEN Raise("ValueError", InvalidZoneMessage)
  ELSE Return(PyStr(Join(ButLast(Split(zone.val, "-")), "-")))

(***************************************************************************)
(* The Dataproc service: clusters and the job.                             *)
(***************************************************************************)
ClusterNames == {"c1", "c2"}
ClusterOrder == <<"c1", "c2">>
ClusterStates == {"ABSENT", "CREATING", "RUNNING", "ERROR", "DELETING"}
JobStates ==
  {"NONE", "PENDING", "RUNNING", "CANCEL_PENDING", "CANCELLED", "DONE", "ERROR"}
FinalJobStates == {"DONE", "ERROR", "CANCELLED"}
JobDetails == {"oom", "preempted"}

\* status.detail of a cluster: the service's text, different for each cluster
ClusterDetail(n, st) == IF st = "ERROR" THEN <<"failed", n>> ELSE <<>>

Cluster(n, st) ==
  [cluster_name |-> n,
   status |-> [state |-> st, detail |-> ClusterDetail(n, st)],
   cluster_uuid |-> <<"uuid", n>>,
   config |-> [config_bucket |-> <<"staging", n>>]]

\* what dataproc.list_clusters(project, region) answers: the clusters there are
RECURSIVE ListFrom(_, _)
ListFrom(cl, i) ==
  IF i > Len(ClusterOrder) THEN <<>>
  ELSE IF cl[ClusterOrder[i]] = "ABSENT" THEN ListFrom(cl, i + 1)
  ELSE <<Cluster(ClusterOrder[i], cl[ClusterOrder[i]])>> \o ListFrom(cl, i + 1)

list_clusters(cl) == ListFrom(cl, 1)

\* the transitions the service makes on its own
ClusterStep(st) ==
  CASE st = "CREATING" -> {"RUNNING", "ERROR"}
    [] st = "RUNNING"  -> {"ERROR", "DELETING"}
    [] st = "ERROR"    -> {"DELETING"}
    [] st = "DELETING" -> {"ABSENT"}
    [] OTHER           -> {}

JobStep(st) ==
  CASE st = "PENDING"        -> {"RUNNING", "CANCEL_PENDING", "ERROR"}
    [] st = "RUNNING"        -> {"DONE", "ERROR", "CANCEL_PENDING"}
    [] st = "CANCEL_PENDING" -> {"CANCELLED"}
    [] OTHER                 -> {}

Job(id, st, d) ==
  [reference |-> [job_id |-> id], status |-> [state |-> st, details |-> d]]
NoJob == Job("", "NONE", "")

(***************************************************************************)
(* The polling loops, one iteration each: what the iteration does with the *)
(* answer of its RPC.                                                      *)
(***************************************************************************)
\* the for loop over the listing
RECURSIVE scan_clusters(_, _)
scan_clusters(listing, name) ==
  IF listing = <<>> THEN Again
  ELSE LET cluster == Head(listing) IN
       IF cluster.cluster_name = name /\ cluster.status.state = "ERROR"
       THEN Raise("Exception", cluster.status.detail)
       ELSE IF cluster.cluster_name = name /\ cluster.status.state = "RUNNING"
       THEN Return(NoneVal)
       ELSE scan_clusters(Tail(listing), name)

\* a for loop that does not compare the cluster's name
RECURSIVE scan_any_cluster(_, _)
scan_any_cluster(listing, name) ==
  IF listing = <<>> THEN Again
  ELSE LET cluster == Head(listing) IN
       IF cluster.status.state = "ERROR"
       THEN Raise("Exception", cluster.status.detail)
       ELSE IF cluster.status.state = "RUNNING"
       THEN Return(NoneVal)
       ELSE scan_any_cluster(Tail(listing), name)

wait_for_cluster_creation_any_name(resp, name) ==
  IF resp.kind = "raise" THEN resp
  ELSE scan_any_cluster(resp.value, name)

wait_for_cluster_creation(resp, name) ==
  IF resp.kind = "raise" THEN resp
  ELSE scan_clusters(resp.value, name)

\* a loop that takes every final state of the job for DONE
wait_for_job_any_final(resp) ==
  IF resp.kind = "raise" THEN resp
  ELSE LET job == resp.value IN
       IF job.status.state = "ERROR" THEN Raise("Exception", job.status.details)
       ELSE IF job.status.state \in FinalJobStates THEN Return(job)
       ELSE Again

\* a loop that polls again when get_job raises
wait_for_job_retrying(resp) ==
  IF resp.kind = "raise" THEN Again
  ELSE LET job == resp.value IN
       IF job.status.state = "ERROR" THEN Raise("Exception", job.status.details)
       ELSE IF job.status.state = "DONE" THEN Return(job)
       ELSE Again

wait_for_job(resp) ==
  IF resp.kind = "raise" THEN resp
  ELSE LET job == resp.value IN
       IF job.status.state = "ERROR" THEN Raise("Exception", job.status.details)
       ELSE IF job.status.state = "DONE" THEN Return(job)
       ELSE Again

\* get_cluster_id_by_name: None when no cluster has the name
RECURSIVE get_cluster_id_by_name(_, _)
get_cluster_id_by_name(listing, name) ==
  IF listing = <<>> THEN NoneVal
  ELSE IF Head(listing).cluster_name = name
  THEN [type |-> "tuple",
        val |-> <<Head(listing).cluster_uuid, Head(listing).config.config_bucket>>]
  ELSE get_cluster_id_by_name(Tail(listing), name)

(***************************************************************************)
(* main of submit_job_to_cluster.py                                        *)
(***************************************************************************)
DEFAULT_FILENAME == <<"pyspark_sort.py">>
basename(path) == <<path[Len(path)]>>

\* a main whose upload is inside the if create_new_cluster block
main_next_upload_in_if(pc, cnc) ==
  CASE pc = "get_client"     -> "open_file"
    [] pc = "open_file"      -> IF cnc THEN "create_cluster" ELSE "list_details"
    [] pc = "create_cluster" -> "wait_cluster"
    [] pc = "wait_cluster"   -> "upload"
    [] pc = "upload"         -> "list_details"
    [] pc = "list_details"   -> "get_cluster_id"
    [] pc = "get_cluster_id" -> "submit"
    [] pc = "submit"         -> "wait_job"
    [] pc = "wait_job"       -> "download"
    [] pc = "download"       -> "finally"
    [] OTHER                 -> "done"

\* the statement main runs after statement pc has returned
main_next(pc, cnc) ==
  CASE pc = "get_client"     -> "open_file"
    [] pc = "open_file"      -> IF cnc THEN "create_cluster" ELSE "upload"
    [] pc = "create_cluster" -> "wait_cluster"
    [] pc = "wait_cluster"   -> "upload"
    [] pc = "upload"         -> "list_details"
    [] pc = "list_details"   -> "get_cluster_id"
    [] pc = "get_cluster_id" -> "submit"
    [] pc = "submit"         -> "wait_job"
    [] pc = "wait_job"       -> "download"
    [] pc = "download"       -> "finally"
    [] OTHER                 -> "done"

VARIABLES
  sample,             \* the sample this run is a run of
  zone, create_new_cluster, global_region, cluster_name, pyspark_file,
  region,             \* main's region, None before it is set
  main_pc,            \* the statement of main that runs next
  exc,                \* the exception in flight in main's try block
  main_outcome,       \* how main ended
  spark_file,         \* "unbound", "open" or "closed"
  spark_filename,
  clusters,           \* the service's clusters: name -> state
  job,                \* the service's job
  bucket,             \* the names of the blobs of the bucket
  cluster_poll,       \* the last answer of list_clusters in wait_for_cluster_creation
  wfc,                \* how wait_for_cluster_creation ended
  job_poll,           \* the last answer of get_job in wait_for_job
  wfj,                \* how wait_for_job ended
  cluster_id,         \* (cluster_id, output_bucket) of get_cluster_id_by_name
  job_id,
  submitted,          \* the job_details of submit_job
  calls               \* the calls main has made and their returns, in order

dataproc_vars ==
  <<zone, create_new_cluster, global_region, cluster_name, pyspark_file, region,
    main_pc, exc, main_outcome, spark_file, spark_filename, clusters, job, bucket,
    cluster_poll, wfc, job_poll, wfj, cluster_id, job_id, submitted, calls>>

\* dialogflow/cloud-client/mic_stream_audio_response.py
VARIABLES
  project_id, session_id, language_code,   \* the fields of the Stream object
  final_request_received,                   \* Stream.final_request_received
  stream_pc,          \* where Stream.stream is
  gen_pc,             \* where the generator of _request_generator is
  input_stream,       \* the PyAudio stream: "none", "open" or "closed"
  yielded,            \* the items the running generator has yielded, in order
  runs                \* the generators stream has created

dialogflow_vars ==
  <<project_id, session_id, language_code, final_request_received, stream_pc,
    gen_pc, input_stream, yielded, runs>>

\* genappbuilder/poll_operation_sample.py
VARIABLES
  operation_name,     \* the argument of poll_operation_sample
  lro,                \* the service's long-running operation
  request,            \* the GetOperationRequest
  operation,          \* the local variable operation
  poll_pc,            \* the statement of poll_operation_sample that runs next
  trace               \* the actions poll_operation_sample has made, in order

poll_vars == <<operation_name, lro, request, operation, poll_pc, trace>>

\* container_registry/container_analysis/samples_test.py
VARIABLES
  test_method,        \* the test that runs
  timestamp,          \* str(int(time())) of setup_method
  note_id, image_url, note_obj,   \* the fields setup_method sets
  ca_notes,           \* the service's notes: the ids of the notes there are
  ca_occs,            \* the service's occurrences
  ca_indexed,         \* the names of the occurrences the list queries see
  ca_next,            \* the number the service gives the next occurrence
  test_pc,            \* the statement of the test that runs next
  test_outcome,       \* "none", "passed", "failed" (an assert) or "error"
  teardown_outcome,   \* "none", "ok" or "error"
  created,            \* the occurrence the test created
  origCount, newCount, tries,     \* the locals of the counting tests
  counts,             \* the counts the polls of the loop reported, in order
  ca_log              \* the calls of samples made, with their outcomes

ca_vars ==
  <<test_method, timestamp, note_id, image_url, note_obj, ca_notes, ca_occs,
    ca_indexed, ca_next, test_pc, test_outcome, teardown_outcome, created,
    origCount, newCount, tries, counts, ca_log>>

\* container_analysis/samples_test.py, test_pubsub
VARIABLES
  delete_notifies,    \* whether the service publishes a message for a delete
  subscribed,         \* client.subscribe has attached receiver.pubsub_callback
  ps_queue,           \* the messages of the subscription not yet delivered
  ps_redeliver,       \* the deliveries of a delivered message still to come
  msg_count,          \* receiver.msg_count
  startVal, loop_i,   \* startVal and the i of the for loop
  pubsub_tries, pubsub_newCount,  \* tries and newCount of test_pubsub
  live_occs,          \* the occurrences the test created and has not deleted
  asserted,           \* the msg_count the assert of line 175 read, per pass
  base_count,         \* the msg_count line 161 read, before the first create
  pubsub_pc,          \* the statement of test_pubsub that runs next
  pubsub_outcome      \* "none", "passed" or "failed"

pubsub_vars ==
  <<delete_notifies, subscribed, ps_queue, ps_redeliver, msg_count, startVal,
    loop_i, pubsub_tries, pubsub_newCount, live_occs, asserted, base_count,
    pubsub_pc, pubsub_outcome>>

\* managed_vms/endpoints/main.py
VARIABLES
  echo_body,          \* what request.get_json() gives for the request
  echo_exc,           \* the exception the view raised, if any
  echo_response,      \* the response sent
  echo_pc             \* "idle", "view", "error" or "sent"

echo_vars == <<echo_body, echo_exc, echo_response, echo_pc>>

\* tables/automl/pipeline/tables_client.py
VARIABLES
  tc_method,          \* the method of TablesClient that is called
  tc_args,            \* its arguments
  tc_calls,           \* the calls of the AutoML client it made, in order
  tc_result,          \* what it returned or raised
  tc_pc               \* "idle", "call" or "done"

tables_vars == <<tc_method, tc_args, tc_calls, tc_result, tc_pc>>

\* monitoring/api/v3/alerts-client/noxfile.py
VARIABLES
  test_config,        \* TEST_CONFIG
  kokoro_job_name,    \* os.environ.get('KOKORO_JOB_NAME')
  nox_ret,            \* what get_pytest_env_vars returned
  nox_pc              \* "idle", "call" or "done"

nox_vars == <<test_config, kokoro_job_name, nox_ret, nox_pc>>

not_dataproc ==
  <<dialogflow_vars, poll_vars, ca_vars, pubsub_vars,
    echo_vars, tables_vars, nox_vars>>
not_dialogflow ==
  <<dataproc_vars, poll_vars, ca_vars, pubsub_vars,
    echo_vars, tables_vars, nox_vars>>
not_poll ==
  <<dataproc_vars, dialogflow_vars, ca_vars, pubsub_vars,
    echo_vars, tables_vars, nox_vars>>
not_ca ==
  <<dataproc_vars, dialogflow_vars, poll_vars, pubsub_vars,
    echo_vars, tables_vars, nox_vars>>
not_pubsub ==
  <<dataproc_vars, dialogflow_vars, poll_vars, ca_vars,
    echo_vars, tables_vars, nox_vars>>
not_echo ==
  <<dataproc_vars, dialogflow_vars, poll_vars, ca_vars,
    pubsub_vars, tables_vars, nox_vars>>
not_tables ==
  <<dataproc_vars, dialogflow_vars, poll_vars, ca_vars,
    pubsub_vars, echo_vars, nox_vars>>
not_nox ==
  <<dataproc_vars, dialogflow_vars, poll_vars, ca_vars,
    pubsub_vars, echo_vars, tables_vars>>

vars ==
  <<sample, dataproc_vars, dialogflow_vars, poll_vars, ca_vars,
    pubsub_vars, echo_vars, tables_vars, nox_vars>>

RECURSIVE SeqsUpTo(_, _)
SeqsUpTo(S, n) ==
  IF n = 0 THEN {<<>>}
  ELSE LET shorter == SeqsUpTo(S, n - 1) IN
       shorter \cup {Append(s, c) : s \in {t \in shorter : Len(t) = n - 1}, c \in S}

ZoneChars == {"a", "-"}
Zones == {NoneVal} \cup {PyStr(s) : s \in SeqsUpTo(ZoneChars, MaxZoneLen)}
PysparkFiles == {NoneVal, PyStr(<<"jobs", "wordcount.py">>)}

Call(fn) == [ev |-> "call", fn |-> fn]
Ret(fn) == [ev |-> "return", fn |-> fn]

InitDataprocRun ==
  /\ region = NoneVal
  /\ exc = NoExc
  /\ main_outcome = NoPoll
  /\ spark_file = "unbound"
  /\ spark_filename = <<>>
  /\ job = NoJob
  /\ bucket = {}
  /\ cluster_poll = NoPoll
  /\ wfc = NoPoll
  /\ job_poll = NoPoll
  /\ wfj = NoPoll
  /\ cluster_id = NoneVal
  /\ job_id = ""
  /\ submitted = NoneVal
  /\ calls = <<>>

\* the variables of a sample that is not the one that runs
IdleDataproc ==
  /\ zone = NoneVal /\ create_new_cluster = FALSE /\ global_region = FALSE
  /\ cluster_name = "c1" /\ pyspark_file = NoneVal
  /\ clusters = [n \in ClusterNames |-> "ABSENT"]
  /\ main_pc = "idle"
  /\ InitDataprocRun

IdleDialogflow ==
  /\ project_id = "" /\ session_id = "" /\ language_code = ""
  /\ final_request_received = FALSE
  /\ stream_pc = "idle" /\ gen_pc = "none" /\ input_stream = "none"
  /\ yielded = <<>> /\ runs = 0

IdlePoll ==
  /\ operation_name = "" /\ lro = NoneVal /\ request = NoneVal
  /\ operation = NoneVal /\ poll_pc = "idle" /\ trace = <<>>

InitTestRun ==
  /\ note_id = NoneVal /\ image_url = NoneVal /\ note_obj = NoneVal
  /\ test_outcome = "none" /\ teardown_outcome = "none"
  /\ created = NoneVal
  /\ origCount = NoneVal /\ newCount = NoneVal /\ tries = 0
  /\ counts = <<>>
  /\ ca_log = <<>>

IdleCa ==
  /\ test_method = "" /\ timestamp = 0
  /\ ca_notes = {} /\ ca_occs = {} /\ ca_indexed = {} /\ ca_next = 0
  /\ test_pc = "idle"
  /\ InitTestRun

IdlePubsub ==
  /\ delete_notifies = FALSE /\ subscribed = FALSE
  /\ ps_queue = 0 /\ ps_redeliver = 0 /\ msg_count = 0
  /\ startVal = 0 /\ loop_i = 0 /\ pubsub_tries = 0 /\ pubsub_newCount = 0
  /\ live_occs = 0 /\ asserted = <<>> /\ base_count = 0
  /\ pubsub_pc = "idle" /\ pubsub_outcome = "none"

IdleEcho ==
  /\ echo_body = NoneVal /\ echo_exc = NoExc /\ echo_response = NoneVal
  /\ echo_pc = "idle"

IdleTables ==
  /\ tc_method = "" /\ tc_args = NoneVal /\ tc_calls = <<>>
  /\ tc_result = NoPoll /\ tc_pc = "idle"

IdleNox ==
  /\ test_config = <<>> /\ kokoro_job_name = NoneVal /\ nox_ret = NoneVal
  /\ nox_pc = "idle"

InitDataproc ==
  /\ sample = "dataproc"
  /\ global_region \in BOOLEAN
  \* with global_region the zone only names where the cluster is created
  /\ zone \in IF global_region THEN {PyStr(<<"a", "-", "a">>)} ELSE Zones
  /\ create_new_cluster \in BOOLEAN
  /\ cluster_name \in ClusterNames
  /\ pyspark_file \in PysparkFiles
  /\ clusters \in [ClusterNames -> ClusterStates]
  /\ main_pc = "get_client"
  /\ InitDataprocRun
  /\ IdleDialogflow /\ IdlePoll /\ IdleCa /\ IdlePubsub /\ IdleEcho /\ IdleTables /\ IdleNox

\* an exception raised inside the try block: the finally clause runs next
Throw(e) ==
  /\ exc' = e
  /\ main_pc' = "finally"

Proceed ==
  /\ main_pc' = main_next(main_pc, create_new_cluster)
  /\ exc' = exc

\* lines 197-212: the region and the clients; outside the try block
MainGetClient ==
  /\ sample = "dataproc" /\ main_pc = "get_client"
  /\ LET r == IF global_region THEN Return(PyStr(<<"global">>))
              ELSE get_region_from_zone(zone) IN
     IF r.kind = "raise"
     THEN /\ main_pc' = "done"
          /\ main_outcome' = r
          /\ calls' = Append(calls, Call("get_region_from_zone"))
          /\ UNCHANGED <<region, exc>>
     ELSE /\ region' = r.value
          /\ main_pc' = main_next(main_pc, create_new_cluster)
          /\ calls' = IF global_region THEN calls
                      ELSE calls \o <<Call("get_region_from_zone"),
                                      Ret("get_region_from_zone")>>
          /\ UNCHANGED <<main_outcome, exc>>
  /\ UNCHANGED <<sample, not_dataproc, zone, create_new_cluster, global_region, cluster_name,
                 pyspark_file, spark_file, spark_filename, clusters, job, bucket,
                 cluster_poll, wfc, job_poll, wfj, cluster_id, job_id, submitted>>

\* lines 216-219: open the PySpark file
MainOpenFile ==
  /\ sample = "dataproc" /\ main_pc = "open_file"
  /\ \E opened \in BOOLEAN :
       IF opened
       THEN /\ spark_file' = "open"
            /\ spark_filename' = IF pyspark_file.type = "str"
                                 THEN basename(pyspark_file.val)
                                 ELSE DEFAULT_FILENAME
            /\ Proceed
       ELSE /\ Throw([type |-> "IOError", arg |-> "open"])
            /\ UNCHANGED <<spark_file, spark_filename>>
  /\ UNCHANGED <<sample, not_dataproc, zone, create_new_cluster, global_region, cluster_name,
                 pyspark_file, region, main_outcome, clusters, job, bucket,
                 cluster_poll, wfc, job_poll, wfj, cluster_id, job_id, submitted,
                 calls>>

\* line 222, create_cluster (lines 81-106): the service starts creating the
\* cluster, or refuses
MainCreateCluster ==
  /\ sample = "dataproc" /\ main_pc = "create_cluster"
  /\ \E ok \in BOOLEAN :
       IF ok /\ clusters[cluster_name] = "ABSENT"
       THEN /\ clusters' = [clusters EXCEPT ![cluster_name] = "CREATING"]
            /\ calls' = calls \o <<Call("create_cluster"), Ret("create_cluster")>>
            /\ Proceed
       ELSE /\ Throw(RpcFail.exc)
            /\ calls' = Append(calls, Call("create_cluster"))
            /\ UNCHANGED clusters
  /\ UNCHANGED <<sample, not_dataproc, zone, create_new_cluster, global_region, cluster_name,
                 pyspark_file, region, main_outcome, spark_file, spark_filename,
                 job, bucket, cluster_poll, wfc, job_poll, wfj, cluster_id,
                 job_id, submitted>>

\* line 224, wait_for_cluster_creation, line 116: a pass of the while loop
\* calls list_clusters, which answers the clusters as they are now or raises
MainWaitClusterList ==
  /\ sample = "dataproc" /\ main_pc = "wait_cluster"
  /\ \E resp \in {RpcOk(list_clusters(clusters)), RpcFail} :
       cluster_poll' = resp
  /\ calls' = IF cluster_poll = NoPoll
              THEN Append(calls, Call("wait_for_cluster_creation"))
              ELSE calls
  /\ main_pc' = "wait_cluster_scan"
  /\ UNCHANGED <<sample, not_dataproc, zone, create_new_cluster, global_region,
                 cluster_name, pyspark_file, region, exc, main_outcome,
                 spark_file, spark_filename, clusters, job, bucket, wfc,
                 job_poll, wfj, cluster_id, job_id, submitted>>

\* lines 116-123: the for loop over the answer, and what the pass ends in
MainWaitClusterScan ==
  /\ sample = "dataproc" /\ main_pc = "wait_cluster_scan"
  /\ LET r == wait_for_cluster_creation(cluster_poll, cluster_name) IN
     CASE r.kind = "raise" ->
            /\ wfc' = r
            /\ Throw(r.exc)
            /\ UNCHANGED calls
       [] r.kind = "return" ->
            /\ wfc' = r
            /\ main_pc' = main_next("wait_cluster", create_new_cluster)
            /\ calls' = Append(calls, Ret("wait_for_cluster_creation"))
            /\ UNCHANGED exc
       [] OTHER ->
            /\ main_pc' = "wait_cluster"
            /\ UNCHANGED <<wfc, exc, calls>>
  /\ UNCHANGED <<sample, not_dataproc, zone, create_new_cluster, global_region,
                 cluster_name, pyspark_file, region, main_outcome, spark_file,
                 spark_filename, clusters, job, bucket, cluster_poll, job_poll,
                 wfj, cluster_id, job_id, submitted>>

\* line 226, upload_pyspark_file (lines 60-66)
MainUpload ==
  /\ sample = "dataproc" /\ main_pc = "upload"
  /\ \E ok \in BOOLEAN :
       IF ok
       THEN /\ bucket' = bucket \cup {spark_filename}
            /\ calls' = calls \o <<Call("upload_pyspark_file"),
                                   Ret("upload_pyspark_file")>>
            /\ Proceed
       ELSE /\ Throw(RpcFail.exc)
            /\ calls' = Append(calls, Call("upload_pyspark_file"))
            /\ UNCHANGED bucket
  /\ UNCHANGED <<sample, not_dataproc, zone, create_new_cluster, global_region, cluster_name,
                 pyspark_file, region, main_outcome, spark_file, spark_filename,
                 clusters, job, cluster_poll, wfc, job_poll, wfj, cluster_id,
                 job_id, submitted>>

\* line 228, list_clusters_with_details (lines 127-131): prints the listing
MainListClusters ==
  /\ sample = "dataproc" /\ main_pc = "list_details"
  /\ \E ok \in BOOLEAN :
       IF ok
       THEN /\ calls' = calls \o <<Call("list_clusters_with_details"),
                                   Ret("list_clusters_with_details")>>
            /\ Proceed
       ELSE /\ Throw(RpcFail.exc)
            /\ calls' = Append(calls, Call("list_clusters_with_details"))
  /\ UNCHANGED <<sample, not_dataproc, zone, create_new_cluster, global_region, cluster_name,
                 pyspark_file, region, main_outcome, spark_file, spark_filename,
                 clusters, job, bucket, cluster_poll, wfc, job_poll, wfj,
                 cluster_id, job_id, submitted>>

\* lines 230-232, get_cluster_id_by_name (lines 135-139): unpacking its None
\* raises TypeError
MainGetClusterId ==
  /\ sample = "dataproc" /\ main_pc = "get_cluster_id"
  /\ \E resp \in {RpcOk(list_clusters(clusters)), RpcFail} :
       IF resp.kind = "raise"
       THEN /\ Throw(resp.exc)
            /\ calls' = Append(calls, Call("get_cluster_id_by_name"))
            /\ UNCHANGED cluster_id
       ELSE LET found == get_cluster_id_by_name(resp.value, cluster_name) IN
            /\ calls' = calls \o <<Call("get_cluster_id_by_name"),
                                   Ret("get_cluster_id_by_name")>>
            /\ IF found = NoneVal
               THEN /\ Throw([type |-> "TypeError", arg |-> "unpack"])
                    /\ UNCHANGED cluster_id
               ELSE /\ cluster_id' = found
                    /\ Proceed
  /\ UNCHANGED <<sample, not_dataproc, zone, create_new_cluster, global_region, cluster_name,
                 pyspark_file, region, main_outcome, spark_file, spark_filename,
                 clusters, job, bucket, cluster_poll, wfc, job_poll, wfj, job_id,
                 submitted>>

\* lines 235-236, submit_pyspark_job (lines 143-159)
MainSubmit ==
  /\ sample = "dataproc" /\ main_pc = "submit"
  /\ \E ok \in BOOLEAN :
       IF ok
       THEN /\ submitted' =
                 [placement |-> [cluster_name |-> cluster_name],
                  pyspark_job |-> [main_python_file_uri |-> spark_filename]]
            /\ job' = Job("job-1", "PENDING", "")
            /\ job_id' = "job-1"
            /\ calls' = calls \o <<Call("submit_pyspark_job"),
                                   Ret("submit_pyspark_job")>>
            /\ Proceed
       ELSE /\ Throw(RpcFail.exc)
            /\ calls' = Append(calls, Call("submit_pyspark_job"))
            /\ UNCHANGED <<submitted, job, job_id>>
  /\ UNCHANGED <<sample, not_dataproc, zone, create_new_cluster, global_region, cluster_name,
                 pyspark_file, region, main_outcome, spark_file, spark_filename,
                 clusters, bucket, cluster_poll, wfc, job_poll, wfj, cluster_id>>

\* line 239, wait_for_job, line 178: a pass of the while loop calls get_job,
\* which answers the job as it is now or raises
MainWaitJobGet ==
  /\ sample = "dataproc" /\ main_pc = "wait_job"
  /\ \E resp \in {RpcOk(job), RpcFail} :
       job_poll' = resp
  /\ calls' = IF job_poll = NoPoll
              THEN Append(calls, Call("wait_for_job"))
              ELSE calls
  /\ main_pc' = "wait_job_check"
  /\ UNCHANGED <<sample, not_dataproc, zone, create_new_cluster, global_region,
                 cluster_name, pyspark_file, region, exc, main_outcome,
                 spark_file, spark_filename, clusters, job, bucket,
                 cluster_poll, wfc, wfj, cluster_id, job_id, submitted>>

\* lines 180-184: what the pass ends in
MainWaitJobCheck ==
  /\ sample = "dataproc" /\ main_pc = "wait_job_check"
  /\ LET r == wait_for_job(job_poll) IN
     CASE r.kind = "raise" ->
            /\ wfj' = r
            /\ Throw(r.exc)
            /\ UNCHANGED calls
       [] r.kind = "return" ->
            /\ wfj' = r
            /\ main_pc' = main_next("wait_job", create_new_cluster)
            /\ calls' = Append(calls, Ret("wait_for_job"))
            /\ UNCHANGED exc
       [] OTHER ->
            /\ main_pc' = "wait_job"
            /\ UNCHANGED <<wfj, exc, calls>>
  /\ UNCHANGED <<sample, not_dataproc, zone, create_new_cluster, global_region,
                 cluster_name, pyspark_file, region, main_outcome, spark_file,
                 spark_filename, clusters, job, bucket, cluster_poll, wfc,
                 job_poll, cluster_id, job_id, submitted>>

\* lines 240-242, download_output (lines 69-77), and the return of its output
MainDownload ==
  /\ sample = "dataproc" /\ main_pc = "download"
  /\ \E ok \in BOOLEAN :
       IF ok
       THEN /\ calls' = calls \o <<Call("download_output"), Ret("download_output")>>
            /\ Proceed
       ELSE /\ Throw(RpcFail.exc)
            /\ calls' = Append(calls, Call("download_output"))
  /\ UNCHANGED <<sample, not_dataproc, zone, create_new_cluster, global_region, cluster_name,
                 pyspark_file, region, main_outcome, spark_file, spark_filename,
                 clusters, job, bucket, cluster_poll, wfc, job_poll, wfj,
                 cluster_id, job_id, submitted>>

\* lines 243-246, the finally clause: delete_cluster (lines 164-169) and the
\* close of the file, both only when the cluster was created by this run
MainFinally ==
  /\ sample = "dataproc" /\ main_pc = "finally"
  /\ main_pc' = "done"
  /\ IF ~create_new_cluster
     THEN /\ main_outcome' = IF exc = NoExc THEN Return("output")
                             ELSE [kind |-> "raise", exc |-> exc]
          /\ UNCHANGED <<clusters, spark_file, calls, exc>>
     ELSE \E ok \in BOOLEAN :
            IF ok /\ clusters[cluster_name] # "ABSENT"
            THEN /\ clusters' = [clusters EXCEPT ![cluster_name] = "DELETING"]
                 /\ calls' = calls \o <<Call("delete_cluster"), Ret("delete_cluster")>>
                 /\ IF spark_file = "unbound"
                    THEN /\ main_outcome' = Raise("UnboundLocalError", "spark_file")
                         /\ UNCHANGED spark_file
                    ELSE /\ spark_file' = "closed"
                         /\ main_outcome' = IF exc = NoExc THEN Return("output")
                                            ELSE [kind |-> "raise", exc |-> exc]
                 /\ UNCHANGED exc
            ELSE /\ main_outcome' = RpcFail
                 /\ calls' = Append(calls, Call("delete_cluster"))
                 /\ UNCHANGED <<clusters, spark_file, exc>>
  /\ UNCHANGED <<sample, not_dataproc, zone, create_new_cluster, global_region, cluster_name,
                 pyspark_file, region, spark_filename, job, bucket, cluster_poll,
                 wfc, job_poll, wfj, cluster_id, job_id, submitted>>

\* the statements of main that call the cluster service
ClusterCallers ==
  {"create_cluster", "wait_cluster", "list_details", "get_cluster_id", "finally"}

\* the service changes the state of a cluster; a change main could not see
\* before its next call of the service is taken to happen before that call
ClusterEnv ==
  /\ sample = "dataproc" /\ main_pc \in ClusterCallers
  /\ \E n \in ClusterNames : \E st \in ClusterStep(clusters[n]) :
       clusters' = [clusters EXCEPT ![n] = st]
  /\ UNCHANGED <<sample, not_dataproc, zone, create_new_cluster, global_region, cluster_name,
                 pyspark_file, region, main_pc, exc, main_outcome, spark_file,
                 spark_filename, job, bucket, cluster_poll, wfc, job_poll, wfj,
                 cluster_id, job_id, submitted, calls>>

\* the service changes the state of the job, which main reads in wait_for_job
JobEnv ==
  /\ sample = "dataproc" /\ main_pc = "wait_job"
  /\ \E st \in JobStep(job.status.state) :
       \E d \in (IF st = "ERROR" THEN JobDetails ELSE {""}) :
         job' = Job(job.reference.job_id, st, d)
  /\ UNCHANGED <<sample, not_dataproc, zone, create_new_cluster, global_region, cluster_name,
                 pyspark_file, region, main_pc, exc, main_outcome, spark_file,
                 spark_filename, clusters, bucket, cluster_poll, wfc, job_poll,
                 wfj, cluster_id, job_id, submitted, calls>>

DataprocNext ==
  \/ MainGetClient
  \/ MainOpenFile
  \/ MainCreateCluster
  \/ MainWaitClusterList
  \/ MainWaitClusterScan
  \/ MainUpload
  \/ MainListClusters
  \/ MainGetClusterId
  \/ MainSubmit
  \/ MainWaitJobGet
  \/ MainWaitJobCheck
  \/ MainDownload
  \/ MainFinally
  \/ ClusterEnv
  \/ JobEnv

(***************************************************************************)
(* dialogflow/cloud-client/mic_stream_audio_response.py: Stream            *)
(***************************************************************************)
SAMPLE_RATE == 44100
CHUNK_SIZE == SAMPLE_RATE \div 10

Projects == {"p1", "p2"}
Sessions == {"s1", "s2"}
Languages == {"en-US"}
\* what input_stream.read answers
AudioChunks == {[frames |-> CHUNK_SIZE, data |-> "x"], [frames |-> CHUNK_SIZE, data |-> "y"]}
NoAudio == [frames |-> 0, data |-> ""]

session_path(project, session) == <<"projects", project, "agent", "sessions", session>>

\* a StreamingDetectIntentRequest; a field that is not set has its default
StreamingDetectIntentRequest(session, query_input, output_audio_config, input_audio) ==
  [session |-> session, query_input |-> query_input,
   output_audio_config |-> output_audio_config, input_audio |-> input_audio]

_build_initial_request(project, session, language) ==
  StreamingDetectIntentRequest(
    session_path(project, session),
    [audio_config |-> [audio_encoding |-> "AUDIO_ENCODING_LINEAR_16",
                       language_code |-> language,
                       sample_rate_hertz |-> SAMPLE_RATE]],
    [audio_encoding |-> "OUTPUT_AUDIO_ENCODING_LINEAR_16",
     sample_rate_hertz |-> SAMPLE_RATE,
     synthesize_speech_config |->
       [voice |-> [ssml_gender |-> "SSML_VOICE_GENDER_FEMALE"]]],
    NoAudio)

\* a loop that sends the session with every chunk
audio_request_with_session(content) ==
  StreamingDetectIntentRequest(<<"projects">>, NoneVal, NoneVal, content)

\* the request the loop of _request_generator yields
audio_request(content) ==
  StreamingDetectIntentRequest(<<>>, NoneVal, NoneVal, content)

\* a StreamingDetectIntentResponse, as far as stream reads it
Responses == [is_final : BOOLEAN, query_text : BOOLEAN, output_audio : BOOLEAN]

InitDialogflow ==
  /\ sample = "dialogflow"
  /\ project_id \in Projects
  /\ session_id \in Sessions
  /\ language_code \in Languages
  /\ final_request_received = FALSE
  /\ stream_pc = "loop_top"
  /\ gen_pc = "none"
  /\ input_stream = "none"
  /\ yielded = <<>>
  /\ runs = 0
  /\ IdleDataproc /\ IdlePoll /\ IdleCa /\ IdlePubsub /\ IdleEcho /\ IdleTables /\ IdleNox

\* lines 98-102: a pass of the while loop of stream up to the call of
\* streaming_detect_intent; the generator object exists, its body has not run
StreamBegin ==
  /\ sample = "dialogflow" /\ stream_pc = "loop_top"
  /\ runs < MaxRuns
  /\ final_request_received' = FALSE
  /\ gen_pc' = "created"
  /\ input_stream' = "none"
  /\ yielded' = <<>>
  /\ runs' = runs + 1
  /\ stream_pc' = "responses"
  /\ UNCHANGED <<sample, not_dialogflow, project_id, session_id, language_code>>

\* lines 78-82: the first next() of the generator opens the microphone and
\* yields the initial request; the open may raise
GenStart ==
  /\ sample = "dialogflow" /\ stream_pc = "responses" /\ gen_pc = "created"
  /\ \E opened \in BOOLEAN :
       IF opened
       THEN /\ input_stream' = "open"
            /\ yielded' = Append(yielded,
                 _build_initial_request(project_id, session_id, language_code))
            /\ gen_pc' = "loop"
       ELSE /\ gen_pc' = "raised"
            /\ UNCHANGED <<input_stream, yielded>>
  /\ UNCHANGED <<sample, not_dialogflow, project_id, session_id, language_code,
                 final_request_received, stream_pc, runs>>

\* lines 85-87: a next() that finds final_request_received set
GenClose ==
  /\ sample = "dialogflow" /\ stream_pc = "responses" /\ gen_pc = "loop"
  /\ final_request_received
  /\ input_stream' = "closed"
  /\ gen_pc' = "returned"
  /\ UNCHANGED <<sample, not_dialogflow, project_id, session_id, language_code,
                 final_request_received, stream_pc, yielded, runs>>

\* lines 88-94: a next() that reads a chunk from the active microphone and
\* yields it (a pass that finds the microphone inactive changes nothing)
GenYieldAudio ==
  /\ sample = "dialogflow" /\ stream_pc = "responses" /\ gen_pc = "loop"
  /\ ~final_request_received
  /\ Len(yielded) < MaxYield
  /\ \E content \in AudioChunks :
       yielded' = Append(yielded, audio_request(content))
  /\ UNCHANGED <<sample, not_dialogflow, project_id, session_id, language_code,
                 final_request_received, stream_pc, gen_pc, input_stream, runs>>

\* lines 103-129: the body of the for loop for one response
StreamResponse ==
  /\ sample = "dialogflow" /\ stream_pc = "responses"
  /\ \E response \in Responses :
       /\ final_request_received' =
            IF response.is_final THEN TRUE ELSE final_request_received
       /\ stream_pc' = IF response.output_audio THEN "returned" ELSE stream_pc
  /\ UNCHANGED <<sample, not_dialogflow, project_id, session_id, language_code,
                 gen_pc, input_stream, yielded, runs>>

\* line 103: the responses end without output audio, or the call raises
StreamResponsesEnd ==
  /\ sample = "dialogflow" /\ stream_pc = "responses"
  /\ \E raised \in BOOLEAN :
       stream_pc' = IF raised THEN "raised" ELSE "loop_top"
  /\ UNCHANGED <<sample, not_dialogflow, project_id, session_id, language_code,
                 final_request_received, gen_pc, input_stream, yielded, runs>>

\* lines 139-141: main plays the audio and streams again with a new Stream
MainPlayAudio ==
  /\ sample = "dialogflow" /\ stream_pc = "returned"
  /\ final_request_received' = FALSE
  /\ stream_pc' = "loop_top"
  /\ UNCHANGED <<sample, not_dialogflow, project_id, session_id, language_code,
                 gen_pc, input_stream, yielded, runs>>

DialogflowNext ==
  \/ StreamBegin
  \/ GenStart
  \/ GenClose
  \/ GenYieldAudio
  \/ StreamResponse
  \/ StreamResponsesEnd
  \/ MainPlayAudio

(***************************************************************************)
(* genappbuilder/poll_operation_sample.py                                  *)
(***************************************************************************)
SLEEP_SECONDS == 10
OperationNames == {"operations/a", "operations/b"}

GetOperationRequest(name) == [name |-> name]
Operation(name, done) == [name |-> name, done |-> done]

GetEvent(req, resp) == [act |-> "get_operation", arg |-> req, got |-> resp]
PrintEvent(op) == [act |-> "print", arg |-> op]
SleepEvent(secs) == [act |-> "sleep", arg |-> secs]

NumGets(tr) == Cardinality({i \in 1..Len(tr) : tr[i].act = "get_operation"})

\* a loop that never ends
stop_polling_never(op) == FALSE

\* line 41: the loop ends after this operation
stop_polling(op) == op.done

InitPoll ==
  /\ sample = "poll_operation"
  /\ operation_name \in OperationNames
  /\ \E d \in BOOLEAN : lro = Operation(operation_name, d)
  /\ request = NoneVal
  /\ operation = NoneVal
  /\ poll_pc = "start"
  /\ trace = <<>>
  /\ IdleDataproc /\ IdleDialogflow /\ IdleCa /\ IdlePubsub /\ IdleEcho /\ IdleTables /\ IdleNox

\* lines 30-33: the client and the request
PollStart ==
  /\ sample = "poll_operation" /\ poll_pc = "start"
  /\ request' = GetOperationRequest(operation_name)
  /\ poll_pc' = "get"
  /\ UNCHANGED <<sample, not_poll, operation_name, lro, operation, trace>>

\* line 36: get_operation answers the operation as it is now, or raises
PollGet ==
  /\ sample = "poll_operation" /\ poll_pc = "get"
  /\ NumGets(trace) < MaxOpPolls
  /\ \E resp \in {RpcOk(lro), RpcFail} :
       /\ trace' = Append(trace, GetEvent(request, resp))
       /\ IF resp.kind = "raise"
          THEN poll_pc' = "raised" /\ UNCHANGED operation
          ELSE poll_pc' = "print" /\ operation' = resp.value
  /\ UNCHANGED <<sample, not_poll, operation_name, lro, request>>

\* line 38
PollPrint ==
  /\ sample = "poll_operation" /\ poll_pc = "print"
  /\ trace' = Append(trace, PrintEvent(operation))
  /\ poll_pc' = "check"
  /\ UNCHANGED <<sample, not_poll, operation_name, lro, request, operation>>

\* lines 41-42
PollCheck ==
  /\ sample = "poll_operation" /\ poll_pc = "check"
  /\ poll_pc' = IF stop_polling(operation) THEN "done" ELSE "sleep"
  /\ UNCHANGED <<sample, not_poll, operation_name, lro, request, operation, trace>>

\* line 45
PollSleep ==
  /\ sample = "poll_operation" /\ poll_pc = "sleep"
  /\ trace' = Append(trace, SleepEvent(SLEEP_SECONDS))
  /\ poll_pc' = "get"
  /\ UNCHANGED <<sample, not_poll, operation_name, lro, request, operation>>

\* the service finishes the operation
LroEnv ==
  /\ sample = "poll_operation" /\ poll_pc \notin {"done", "raised"}
  /\ ~lro.done
  /\ lro' = Operation(lro.name, TRUE)
  /\ UNCHANGED <<sample, not_poll, operation_name, request, operation, poll_pc, trace>>

PollNext ==
  \/ PollStart
  \/ PollGet
  \/ PollPrint
  \/ PollCheck
  \/ PollSleep
  \/ LroEnv

(***************************************************************************)
(* container_registry/container_analysis/samples_test.py                   *)
(*                                                                         *)
(* The tests call samples.py, which is not among the sources: its          *)
(* functions are modelled as a store of notes and occurrences whose list   *)
(* queries see a new occurrence only after the service has indexed it.     *)
(* test_update_note and test_update_occurrence are not modelled;           *)
(* test_pubsub is modelled on its own below.                               *)
(***************************************************************************)
SLEEP_TIME == 1
TRY_LIMIT == 20
PROJECT_ID == "project"

TestMethods ==
  {"test_create_note", "test_delete_note", "test_create_occurrence",
   "test_delete_occurrence", "test_occurrences_for_image",
   "test_occurrences_for_note"}
Timestamps == {"1700000000", "1700000001"}

note_path(nid) == <<"projects", PROJECT_ID, "notes">> \o nid.val
Note(nid) == [type |-> "Note", name |-> note_path(nid), short_description |-> ""]
Occurrence(k, nid, url) ==
  [type |-> "Occurrence", name |-> <<"occurrences", k>>,
   note_name |-> note_path(nid), resource_url |-> url]

\* what other tests left in the project
OtherNote == PyStr(<<"note-", "other">>)
OtherOccurrence == Occurrence(0, OtherNote, PyStr(<<"www.", "other", ".com">>))

\* samples.create_note(note_id, project_id)
create_note(nid, notes) ==
  IF nid \in notes
  THEN [res |-> Raise("AlreadyExists", ""), notes |-> notes]
  ELSE [res |-> Return(Note(nid)), notes |-> notes \cup {nid}]

\* samples.get_note(note_id, project_id): a note_id that is no str gives no
\* valid note name
get_note(nid, notes) ==
  IF nid.type # "str" THEN Raise("InvalidArgument", "")
  ELSE IF nid \notin notes THEN Raise("NotFound", "")
  ELSE Return(Note(nid))

\* samples.delete_note(note_id, project_id)
delete_note(nid, notes) ==
  IF nid \notin notes
  THEN [res |-> Raise("NotFound", ""), notes |-> notes]
  ELSE [res |-> Return(NoneVal), notes |-> notes \ {nid}]

\* samples.create_occurrence(image_url, parent_note_id, project_id); k is the
\* number the service gives the occurrence
create_occurrence(url, nid, occs, k) ==
  [res |-> Return(Occurrence(k, nid, url)),
   occs |-> occs \cup {Occurrence(k, nid, url)}]

\* samples.get_occurrence(occurrence_name)
get_occurrence(name, occs) ==
  IF \E o \in occs : o.name = name
  THEN Return(CHOOSE o \in occs : o.name = name)
  ELSE Raise("NotFound", "")

\* samples.delete_occurrence(occurrence_name)
delete_occurrence(name, occs) ==
  IF \E o \in occs : o.name = name
  THEN [res |-> Return(NoneVal), occs |-> {o \in occs : o.name # name}]
  ELSE [res |-> Raise("NotFound", ""), occs |-> occs]

\* samples.get_occurrences_for_image(image_url, project_id): the number of
\* occurrences the list query answers
get_occurrences_for_image(url, occs, indexed) ==
  Cardinality({o \in occs : o.name \in indexed /\ o.resource_url = url})

\* samples.get_occurrences_for_note(note_id, project_id)
get_occurrences_for_note(nid, occs, indexed) ==
  Cardinality({o \in occs : o.name \in indexed /\ o.note_name = note_path(nid)})

LogCall(fn, arg, res) == [fn |-> fn, arg |-> arg, res |-> res]

\* an except clause for another exception
teardown_swallows_invalid_argument(type) == type = "InvalidArgument"

\* the except clause of teardown_method
teardown_swallows(type) == type = "NotFound"

\* the except clause of test_delete_note and that of test_delete_occurrence
expected_in_test_delete_note(type) == type = "InvalidArgument"
expected_in_test_delete_occurrence(type) == type = "NotFound"

\* a loop that makes one pass more
keep_polling_once_more(count, n) == count # 1 /\ n <= TRY_LIMIT

\* the condition of the while loop of the counting tests
keep_polling(count, n) == count # 1 /\ n < TRY_LIMIT

\* the first statement of a test
first_statement(method) ==
  CASE method = "test_create_note"           -> "get_note"
    [] method = "test_delete_note"           -> "delete_note"
    [] method = "test_create_occurrence"     -> "create"
    [] method = "test_delete_occurrence"     -> "create"
    [] method = "test_occurrences_for_image" -> "orig"
    [] method = "test_occurrences_for_note"  -> "orig"

InitCa ==
  /\ sample = "container_analysis"
  /\ test_method \in TestMethods
  /\ timestamp \in Timestamps
  /\ \E others \in BOOLEAN :
       /\ ca_notes = IF others THEN {OtherNote} ELSE {}
       /\ ca_occs = IF others THEN {OtherOccurrence} ELSE {}
       /\ ca_indexed = IF others THEN {OtherOccurrence.name} ELSE {}
  /\ ca_next = 1
  /\ test_pc = "setup"
  /\ InitTestRun
  /\ IdleDataproc /\ IdleDialogflow /\ IdlePoll /\ IdlePubsub /\ IdleEcho /\ IdleTables /\ IdleNox

\* lines 36-41: a test whose setup raises is not run and not torn down
setup_method ==
  /\ sample = "container_analysis" /\ test_pc = "setup"
  /\ LET nid == PyStr(<<"note-", timestamp, test_method>>)
         r == create_note(nid, ca_notes) IN
     /\ note_id' = nid
     /\ image_url' = PyStr(<<"www.", timestamp, test_method, ".com">>)
     /\ ca_notes' = r.notes
     /\ ca_log' = Append(ca_log, LogCall("create_note", nid, r.res))
     /\ IF r.res.kind = "return"
        THEN /\ note_obj' = r.res.value
             /\ test_pc' = first_statement(test_method)
             /\ UNCHANGED test_outcome
        ELSE /\ test_outcome' = "error"
             /\ test_pc' = "finished"
             /\ UNCHANGED note_obj
  /\ UNCHANGED <<sample, not_ca, test_method, timestamp, ca_occs, ca_indexed,
                 ca_next, teardown_outcome, created, origCount, newCount,
                 tries, counts>>

\* lines 43-48
teardown_method ==
  /\ sample = "container_analysis" /\ test_pc = "teardown"
  /\ LET r == delete_note(note_id, ca_notes) IN
     /\ ca_notes' = r.notes
     /\ ca_log' = Append(ca_log, LogCall("delete_note", note_id, r.res))
     /\ teardown_outcome' =
          IF r.res.kind = "raise" /\ ~teardown_swallows(r.res.exc.type)
          THEN "error" ELSE "ok"
  /\ test_pc' = "finished"
  /\ UNCHANGED <<sample, not_ca, test_method, timestamp, note_id, image_url,
                 note_obj, ca_occs, ca_indexed, ca_next, test_outcome, created,
                 origCount, newCount, tries, counts>>

\* lines 50-52
test_create_note ==
  /\ sample = "container_analysis" /\ test_method = "test_create_note"
  /\ test_pc = "get_note"
  /\ LET r == get_note(note_id, ca_notes) IN
     /\ ca_log' = Append(ca_log, LogCall("get_note", note_id, r))
     /\ test_outcome' = IF r.kind = "raise" THEN "error"
                        ELSE IF r.value.name = note_obj.name THEN "passed"
                        ELSE "failed"
  /\ test_pc' = "teardown"
  /\ UNCHANGED <<sample, not_ca, test_method, timestamp, note_id, image_url,
                 note_obj, ca_notes, ca_occs, ca_indexed, ca_next,
                 teardown_outcome, created, origCount, newCount, tries, counts>>

\* line 55 of test_delete_note
test_delete_note_delete ==
  /\ sample = "container_analysis" /\ test_method = "test_delete_note"
  /\ test_pc = "delete_note"
  /\ LET r == delete_note(note_id, ca_notes) IN
     /\ ca_notes' = r.notes
     /\ ca_log' = Append(ca_log, LogCall("delete_note", note_id, r.res))
     /\ IF r.res.kind = "raise"
        THEN test_outcome' = "error" /\ test_pc' = "teardown"
        ELSE test_pc' = "get_note" /\ UNCHANGED test_outcome
  /\ UNCHANGED <<sample, not_ca, test_method, timestamp, note_id, image_url,
                 note_obj, ca_occs, ca_indexed, ca_next, teardown_outcome,
                 created, origCount, newCount, tries, counts>>

\* lines 56-62 of test_delete_note: get_note is given the note, not its id
test_delete_note_get ==
  /\ sample = "container_analysis" /\ test_method = "test_delete_note"
  /\ test_pc = "get_note"
  /\ LET r == get_note(note_obj, ca_notes) IN
     /\ ca_log' = Append(ca_log, LogCall("get_note", note_obj, r))
     /\ test_outcome' =
          IF r.kind = "return" THEN "failed"
          ELSE IF expected_in_test_delete_note(r.exc.type) THEN "passed"
          ELSE "error"
  /\ test_pc' = "teardown"
  /\ UNCHANGED <<sample, not_ca, test_method, timestamp, note_id, image_url,
                 note_obj, ca_notes, ca_occs, ca_indexed, ca_next,
                 teardown_outcome, created, origCount, newCount, tries, counts>>

\* lines 73-75, 82-84, 115-116 and 132-134: the test creates its occurrence,
\* which the list queries do not see yet
test_create ==
  /\ sample = "container_analysis" /\ test_pc = "create"
  /\ LET r == create_occurrence(image_url, note_id, ca_occs, ca_next) IN
     /\ ca_occs' = r.occs
     /\ ca_next' = ca_next + 1
     /\ created' = r.res.value
     /\ ca_log' = Append(ca_log, LogCall("create_occurrence", image_url, r.res))
  /\ test_pc' = CASE test_method = "test_create_occurrence" -> "get"
                  [] test_method = "test_delete_occurrence" -> "delete"
                  [] OTHER -> "poll"
  /\ newCount' = IF test_pc' = "poll" THEN 0 ELSE newCount
  /\ UNCHANGED <<sample, not_ca, test_method, timestamp, note_id, image_url,
                 note_obj, ca_notes, ca_indexed, test_outcome,
                 teardown_outcome, origCount, tries, counts>>

\* lines 76-79 of test_create_occurrence
test_create_occurrence_get ==
  /\ sample = "container_analysis" /\ test_method = "test_create_occurrence"
  /\ test_pc = "get"
  /\ LET r == get_occurrence(created.name, ca_occs)
         d == delete_occurrence(created.name, ca_occs)
         ok == r.kind = "return" /\ created.name = r.value.name IN
     /\ ca_log' = IF ok
                  THEN ca_log \o <<LogCall("get_occurrence", created.name, r),
                                   LogCall("delete_occurrence", created.name, d.res)>>
                  ELSE Append(ca_log, LogCall("get_occurrence", created.name, r))
     /\ ca_occs' = IF ok THEN d.occs ELSE ca_occs
     /\ ca_indexed' = IF ok /\ d.res.kind = "return"
                      THEN ca_indexed \ {created.name} ELSE ca_indexed
     /\ test_outcome' = IF r.kind = "raise" THEN "error"
                        ELSE IF ~ok THEN "failed"
                        ELSE IF d.res.kind = "raise" THEN "error"
                        ELSE "passed"
  /\ test_pc' = "teardown"
  /\ UNCHANGED <<sample, not_ca, test_method, timestamp, note_id, image_url,
                 note_obj, ca_notes, ca_next, teardown_outcome, created,
                 origCount, newCount, tries, counts>>

\* line 85 of test_delete_occurrence
test_delete_occurrence_delete ==
  /\ sample = "container_analysis" /\ test_method = "test_delete_occurrence"
  /\ test_pc = "delete"
  /\ LET d == delete_occurrence(created.name, ca_occs) IN
     /\ ca_occs' = d.occs
     /\ ca_indexed' = IF d.res.kind = "return"
                      THEN ca_indexed \ {created.name} ELSE ca_indexed
     /\ ca_log' = Append(ca_log, LogCall("delete_occurrence", created.name, d.res))
     /\ IF d.res.kind = "raise"
        THEN test_outcome' = "error" /\ test_pc' = "teardown"
        ELSE test_pc' = "get" /\ UNCHANGED test_outcome
  /\ UNCHANGED <<sample, not_ca, test_method, timestamp, note_id, image_url,
                 note_obj, ca_notes, ca_next, teardown_outcome, created,
                 origCount, newCount, tries, counts>>

\* lines 86-92 of test_delete_occurrence
test_delete_occurrence_get ==
  /\ sample = "container_analysis" /\ test_method = "test_delete_occurrence"
  /\ test_pc = "get"
  /\ LET r == get_occurrence(created.name, ca_occs) IN
     /\ ca_log' = Append(ca_log, LogCall("get_occurrence", created.name, r))
     /\ test_outcome' =
          IF r.kind = "return" THEN "failed"
          ELSE IF expected_in_test_delete_occurrence(r.exc.type) THEN "passed"
          ELSE "error"
  /\ test_pc' = "teardown"
  /\ UNCHANGED <<sample, not_ca, test_method, timestamp, note_id, image_url,
                 note_obj, ca_notes, ca_occs, ca_indexed, ca_next,
                 teardown_outcome, created, origCount, newCount, tries, counts>>

\* the count the counting test asks for
current_count ==
  IF test_method = "test_occurrences_for_image"
  THEN get_occurrences_for_image(image_url, ca_occs, ca_indexed)
  ELSE get_occurrences_for_note(note_id, ca_occs, ca_indexed)

\* lines 113-114 and 130-131
test_occurrences_orig ==
  /\ sample = "container_analysis" /\ test_pc = "orig"
  /\ test_method \in {"test_occurrences_for_image", "test_occurrences_for_note"}
  /\ origCount' = current_count
  /\ test_pc' = "create"
  /\ UNCHANGED <<sample, not_ca, test_method, timestamp, note_id, image_url,
                 note_obj, ca_notes, ca_occs, ca_indexed, ca_next,
                 test_outcome, teardown_outcome, created, newCount, tries,
                 counts, ca_log>>

\* lines 119-123 and 137-141: a pass of the while loop; the service may index
\* the occurrence before the pass and during its sleep(SLEEP_TIME)
test_occurrences_poll ==
  /\ sample = "container_analysis" /\ test_pc = "poll"
  /\ keep_polling(newCount, tries)
  /\ tries' = tries + 1
  /\ newCount' = current_count
  /\ counts' = Append(counts, current_count)
  /\ UNCHANGED <<sample, not_ca, test_method, timestamp, note_id, image_url,
                 note_obj, ca_notes, ca_occs, ca_indexed, ca_next, test_pc,
                 test_outcome, teardown_outcome, created, origCount, ca_log>>

\* lines 124-127 and 142-145: the loop has ended; the asserts and the clean up
test_occurrences_assert ==
  /\ sample = "container_analysis" /\ test_pc = "poll"
  /\ ~keep_polling(newCount, tries)
  /\ IF newCount = 1 /\ origCount = 0
     THEN LET d == delete_occurrence(created.name, ca_occs) IN
          /\ ca_occs' = d.occs
          /\ ca_indexed' = IF d.res.kind = "return"
                           THEN ca_indexed \ {created.name} ELSE ca_indexed
          /\ ca_log' =
               Append(ca_log, LogCall("delete_occurrence", created.name, d.res))
          /\ test_outcome' = IF d.res.kind = "raise" THEN "error" ELSE "passed"
     ELSE /\ test_outcome' = "failed"
          /\ UNCHANGED <<ca_occs, ca_indexed, ca_log>>
  /\ test_pc' = "teardown"
  /\ UNCHANGED <<sample, not_ca, test_method, timestamp, note_id, image_url,
                 note_obj, ca_notes, ca_next, teardown_outcome, created,
                 origCount, newCount, tries, counts>>

\* the service indexes an occurrence: the list queries see it from now on
IndexEnv ==
  /\ sample = "container_analysis" /\ test_pc # "finished"
  /\ \E o \in ca_occs :
       /\ o.name \notin ca_indexed
       /\ ca_indexed' = ca_indexed \cup {o.name}
  /\ UNCHANGED <<sample, not_ca, test_method, timestamp, note_id, image_url,
                 note_obj, ca_notes, ca_occs, ca_next, test_pc, test_outcome,
                 teardown_outcome, created, origCount, newCount, tries, counts,
                 ca_log>>

CaNext ==
  \/ setup_method
  \/ teardown_method
  \/ test_create_note
  \/ test_delete_note_delete
  \/ test_delete_note_get
  \/ test_create
  \/ test_create_occurrence_get
  \/ test_delete_occurrence_delete
  \/ test_delete_occurrence_get
  \/ test_occurrences_orig
  \/ test_occurrences_poll
  \/ test_occurrences_assert
  \/ IndexEnv

(***************************************************************************)
(* container_registry/container_analysis/samples_test.py: test_pubsub.     *)
(* samples.MessageReceiver counts the messages its callback is handed; the *)
(* callback runs on the subscriber's thread while the test polls           *)
(* receiver.msg_count.  The service publishes one message for each         *)
(* occurrence it creates; whether it publishes one for a delete, and       *)
(* whether a message is delivered more than once, is the service's choice. *)
(***************************************************************************)
NUM_CREATED == 3

\* a start value that is the count itself
start_value_no_offset(count) == count

\* line 161: startVal = receiver.msg_count + 1
start_value(count) == count + 1

\* line 170: the condition of the while loop
pubsub_keep_polling(count, i, n) == count # i /\ n < TRY_LIMIT

\* samples.MessageReceiver.pubsub_callback
pubsub_callback(count) == count + 1

InitPubsub ==
  /\ sample = "test_pubsub"
  /\ delete_notifies \in BOOLEAN
  /\ ps_queue \in 0..MaxBacklog
  /\ ps_redeliver \in 0..MaxRedeliver
  /\ subscribed = FALSE /\ msg_count = 0
  /\ startVal = 0 /\ loop_i = 0 /\ pubsub_tries = 0 /\ pubsub_newCount = 0
  /\ live_occs = 0 /\ asserted = <<>> /\ base_count = 0
  /\ pubsub_pc = "subscribe" /\ pubsub_outcome = "none"
  /\ IdleDataproc /\ IdleDialogflow /\ IdlePoll /\ IdleCa /\ IdleEcho /\ IdleTables /\ IdleNox

\* lines 148-155: the subscription, a receiver that has counted nothing, and
\* the callback attached
test_pubsub_subscribe ==
  /\ sample = "test_pubsub" /\ pubsub_pc = "subscribe"
  /\ subscribed' = TRUE
  /\ msg_count' = 0
  /\ pubsub_pc' = "drain"
  /\ UNCHANGED <<sample, not_pubsub, delete_notifies, ps_queue, ps_redeliver,
                 startVal, loop_i, pubsub_tries, pubsub_newCount, live_occs,
                 asserted, base_count, pubsub_outcome>>

\* lines 159-161: after sleep(SLEEP_TIME*TRY_LIMIT), during which the
\* callback may have run, the start value is read
test_pubsub_start ==
  /\ sample = "test_pubsub" /\ pubsub_pc = "drain"
  /\ base_count' = msg_count
  /\ startVal' = start_value(msg_count)
  /\ loop_i' = start_value(msg_count)
  /\ pubsub_pc' = "create"
  /\ UNCHANGED <<sample, not_pubsub, delete_notifies, subscribed, ps_queue,
                 ps_redeliver, msg_count, pubsub_tries, pubsub_newCount,
                 live_occs, asserted, pubsub_outcome>>

\* lines 163-169: the next i of range(startVal, startVal+3); the occurrence is
\* created, for which the service publishes a message
test_pubsub_create ==
  /\ sample = "test_pubsub" /\ pubsub_pc = "create"
  /\ loop_i < startVal + NUM_CREATED
  /\ live_occs' = live_occs + 1
  /\ ps_queue' = ps_queue + 1
  /\ pubsub_tries' = 0
  /\ pubsub_newCount' = msg_count
  /\ pubsub_pc' = "poll"
  /\ UNCHANGED <<sample, not_pubsub, delete_notifies, subscribed, ps_redeliver,
                 msg_count, startVal, loop_i, asserted, base_count,
                 pubsub_outcome>>

\* lines 170-173: a pass of the while loop
test_pubsub_poll ==
  /\ sample = "test_pubsub" /\ pubsub_pc = "poll"
  /\ pubsub_keep_polling(pubsub_newCount, loop_i, pubsub_tries)
  /\ pubsub_tries' = pubsub_tries + 1
  /\ pubsub_newCount' = msg_count
  /\ UNCHANGED <<sample, not_pubsub, delete_notifies, subscribed, ps_queue,
                 ps_redeliver, msg_count, startVal, loop_i, live_occs,
                 asserted, base_count, pubsub_pc, pubsub_outcome>>

\* lines 174-176: the loop has ended; the assert reads receiver.msg_count
\* again, and the occurrence is deleted when it holds
test_pubsub_assert ==
  /\ sample = "test_pubsub" /\ pubsub_pc = "poll"
  /\ ~pubsub_keep_polling(pubsub_newCount, loop_i, pubsub_tries)
  /\ asserted' = Append(asserted, msg_count)
  /\ IF loop_i = msg_count
     THEN /\ live_occs' = live_occs - 1
          /\ ps_queue' = IF delete_notifies THEN ps_queue + 1 ELSE ps_queue
          /\ loop_i' = loop_i + 1
          /\ pubsub_pc' = "create"
          /\ UNCHANGED pubsub_outcome
     ELSE /\ pubsub_outcome' = "failed"
          /\ pubsub_pc' = "finished"
          /\ UNCHANGED <<live_occs, ps_queue, loop_i>>
  /\ UNCHANGED <<sample, not_pubsub, delete_notifies, subscribed, ps_redeliver,
                 msg_count, startVal, pubsub_tries, pubsub_newCount,
                 base_count>>

\* line 178: the range is exhausted; the subscription is deleted
test_pubsub_cleanup ==
  /\ sample = "test_pubsub" /\ pubsub_pc = "create"
  /\ loop_i = startVal + NUM_CREATED
  /\ subscribed' = FALSE
  /\ pubsub_outcome' = "passed"
  /\ pubsub_pc' = "finished"
  /\ UNCHANGED <<sample, not_pubsub, delete_notifies, ps_queue, ps_redeliver,
                 msg_count, startVal, loop_i, pubsub_tries, pubsub_newCount,
                 live_occs, asserted, base_count>>

\* the subscriber's thread hands a message of the subscription to the callback
PubsubDeliver ==
  /\ sample = "test_pubsub" /\ subscribed /\ pubsub_pc # "finished"
  /\ ps_queue > 0
  /\ ps_queue' = ps_queue - 1
  /\ msg_count' = pubsub_callback(msg_count)
  /\ UNCHANGED <<sample, not_pubsub, delete_notifies, subscribed, ps_redeliver,
                 startVal, loop_i, pubsub_tries, pubsub_newCount, live_occs,
                 asserted, base_count, pubsub_pc, pubsub_outcome>>

\* a message that was delivered is delivered again
PubsubRedeliver ==
  /\ sample = "test_pubsub" /\ subscribed /\ pubsub_pc # "finished"
  /\ ps_redeliver > 0 /\ msg_count > 0
  /\ ps_redeliver' = ps_redeliver - 1
  /\ msg_count' = pubsub_callback(msg_count)
  /\ UNCHANGED <<sample, not_pubsub, delete_notifies, subscribed, ps_queue,
                 startVal, loop_i, pubsub_tries, pubsub_newCount, live_occs,
                 asserted, base_count, pubsub_pc, pubsub_outcome>>

PubsubNext ==
  \/ test_pubsub_subscribe
  \/ test_pubsub_start
  \/ test_pubsub_create
  \/ test_pubsub_poll
  \/ test_pubsub_assert
  \/ test_pubsub_cleanup
  \/ PubsubDeliver
  \/ PubsubRedeliver

(***************************************************************************)
(* managed_vms/endpoints/main.py: the echo view and the error handler.     *)
(* A JSON value is its kind and its text; a JSON object is a function from *)
(* its keys to JSON values.  jsonify writes the JSON text of a dict, here  *)
(* a sequence of tokens.                                                   *)
(***************************************************************************)
INTERNAL_SERVER_ERROR == 500
OK == 200

JsonString(t) == [json |-> "string", text |-> t]
JsonOther(k, t) == [json |-> k, text |-> t]
JsonValues ==
  {JsonString("hi"), JsonString(""), JsonString("7"), JsonOther("number", "7"),
   JsonOther("null", "null")}
JsonKeys == {"message", "other"}
JsonObjects == UNION {[ks -> JsonValues] : ks \in SUBSET JsonKeys}
JsonArray == [type |-> "list"]

\* json.dumps of a value
dumps_value(v) ==
  IF v.json = "string" THEN <<"\"", v.text, "\"">> ELSE <<v.text>>

\* json.dumps of a dict whose keys are listed in order
RECURSIVE dumps_members(_, _)
dumps_members(d, keys) ==
  IF keys = <<>> THEN <<>>
  ELSE <<"\"", keys[1], "\"", ":">> \o dumps_value(d[keys[1]])
       \o (IF Len(keys) > 1 THEN <<",">> ELSE <<>>)
       \o dumps_members(d, Tail(keys))

\* flask.jsonify(dict)
jsonify(d, keys, status) ==
  [status |-> status, mimetype |-> "application/json",
   data |-> <<"{">> \o dumps_members(d, keys) \o <<"}">>]

\* a view that answers None for a body without the key
echo_message_default_none(body) ==
  IF "message" \in DOMAIN body THEN body["message"] ELSE JsonOther("null", "null")

\* line 50: request.get_json().get('message', '') for a dict
echo_message(body) ==
  IF "message" \in DOMAIN body THEN body["message"] ELSE JsonString("")

\* lines 48-51: the view; a body that is no dict has no get
echo(body) ==
  IF body \in JsonObjects
  THEN Return(jsonify([message |-> echo_message(body)], <<"message">>, OK))
  ELSE Raise("AttributeError", "get")

InitEcho ==
  /\ sample = "echo"
  /\ echo_body \in JsonObjects \cup {JsonArray, NoneVal}
  /\ echo_exc = NoExc /\ echo_response = NoneVal
  /\ echo_pc = "view"
  /\ IdleDataproc /\ IdleDialogflow /\ IdlePoll /\ IdleCa /\ IdlePubsub
  /\ IdleTables /\ IdleNox

\* lines 47-51: POST /echo
EchoView ==
  /\ sample = "echo" /\ echo_pc = "view"
  /\ LET r == echo(echo_body) IN
     IF r.kind = "return"
     THEN /\ echo_response' = r.value
          /\ echo_pc' = "sent"
          /\ UNCHANGED echo_exc
     ELSE /\ echo_exc' = r.exc
          /\ echo_pc' = "error"
          /\ UNCHANGED echo_response
  /\ UNCHANGED <<sample, not_echo, echo_body>>

\* lines 79-87: unexpected_error
EchoUnexpectedError ==
  /\ sample = "echo" /\ echo_pc = "error"
  /\ echo_response' =
       jsonify([code |-> JsonOther("number", "500"),
                message |-> JsonString(<<"Exception: ", echo_exc.type>>)],
               <<"code", "message">>, INTERNAL_SERVER_ERROR)
  /\ echo_pc' = "sent"
  /\ UNCHANGED <<sample, not_echo, echo_body, echo_exc>>

EchoNext == EchoView \/ EchoUnexpectedError

(***************************************************************************)
(* tables/automl/pipeline/tables_client.py: TablesClient.                  *)
(* The file does not compile as it stands (the calls opened on lines 196   *)
(* and 249 are not closed, the arguments of lines 399-403 have no commas), *)
(* so importing it raises SyntaxError.  The methods are modelled by their  *)
(* statements, read with those delimiters in place.                        *)
(***************************************************************************)
PyBool(b) == [type |-> "bool", val |-> b]
PyList(l) == [type |-> "list", val |-> l]
PyDict(f) == [type |-> "dict", val |-> f]

\* the truth value of an argument in an if
Truthy(v) ==
  CASE v.type = "NoneType" -> FALSE
    [] v.type = "str" -> v.val # <<>>
    [] v.type = "dict" -> DOMAIN v.val # {}
    [] OTHER -> TRUE

\* str.startswith('bq') on a string of tokens none of which but "bq" begins
\* with bq
startswith_bq(str) == Len(str.val) > 0 /\ str.val[1] = "bq"

\* str.split(","): the list of the strings between the commas
split_commas(str) ==
  LET parts == Split(str.val, ",") IN
  PyList([i \in 1..Len(parts) |-> PyStr(parts[i])])

\* dict.get(key, None)
dict_get(d, key) == IF key \in DOMAIN d.val THEN d.val[key] ELSE NoneVal

\* list(d.keys()) if d else [], as a set
keys_if_truthy(d) == IF Truthy(d) THEN DOMAIN d.val ELSE {}

Perms(S) ==
  {p \in [1..Cardinality(S) -> S] : {p[i] : i \in 1..Cardinality(S)} = S}

ClientCall(fn, kwargs) == [fn |-> fn, kwargs |-> kwargs]
\* what the AutoML client answers a call with
ClientResponse(call) == [type |-> "response", to |-> call]

Effect(made, res) == [calls |-> made, res |-> res]

DatasetNames == {"projects/p/locations/l/datasets/d"}
ModelNames == {"projects/p/locations/l/models/m"}
InputPaths ==
  {PyStr(<<"bq", "://", "p.d.t">>), PyStr(<<"gs", "://", "a.csv">>),
   PyStr(<<"gs", "://", "a.csv", ",", "gs", "://", "b.csv">>)}
OutputPaths == {PyStr(<<"bq", "://", "p">>), PyStr(<<"gs", "://", "out">>)}
ColumnsDtype ==
  {NoneVal, PyDict(<<>>), PyDict([c \in {"a"} |-> PyStr(<<"FLOAT64">>)]),
   PyDict([c \in {"a", "b"} |-> PyStr(<<"STRING">>)])}
ColumnsNullable ==
  {NoneVal, PyDict(<<>>), PyDict([c \in {"a"} |-> PyBool(TRUE)]),
   PyDict([c \in {"b"} |-> PyBool(FALSE)])}
ColumnArgs(name) == {NoneVal, PyStr(<<name>>)}

\* lines 135-157: neither branch has a return
import_data(dataset_name, dataset_input_path) ==
  IF startswith_bq(dataset_input_path)
  THEN Effect(<<ClientCall("import_data",
                           [dataset_name |-> dataset_name,
                            bigquery_input_uri |-> dataset_input_path])>>,
              Return(NoneVal))
  ELSE Effect(<<ClientCall("import_data",
                           [dataset_name |-> dataset_name,
                            gcs_input_uris |->
                              split_commas(dataset_input_path)])>>,
              Return(NoneVal))

\* lines 159-175
update_primary_table(dataset_name, time_column) ==
  LET call == ClientCall("set_time_column",
                         [dataset_name |-> dataset_name,
                          column_spec_name |-> time_column]) IN
  Effect(<<call>>, Return(ClientResponse(call)))

\* lines 195-201: the passes of the for loop from the i-th name of order on;
\* columns_dtype.get and columns_nullable.get are evaluated before the call
RECURSIVE update_columns_loop(_, _, _, _, _, _, _)
update_columns_loop(dataset_name, columns_dtype, columns_nullable, order, i, made, responses) ==
  IF i > Len(order) THEN Effect(made, Return(PyList(responses)))
  ELSE IF columns_dtype.type = "NoneType" \/ columns_nullable.type = "NoneType"
  THEN Effect(made, Raise("AttributeError", "get"))
  ELSE LET call == ClientCall("update_column_spec",
                     [dataset_name |-> dataset_name,
                      column_spec_display_name |-> order[i],
                      type_code |-> dict_get(columns_dtype, order[i]),
                      nullable |-> dict_get(columns_nullable, order[i])]) IN
       update_columns_loop(dataset_name, columns_dtype, columns_nullable,
                           order, i + 1, Append(made, call),
                           Append(responses, ClientResponse(call)))

\* lines 177-202; order is the order in which the set of names is iterated
update_columns(dataset_name, columns_dtype, columns_nullable, order) ==
  update_columns_loop(dataset_name, columns_dtype, columns_nullable, order, 1,
                      <<>>, <<>>)

\* lines 243-257: one of the three set_..._column calls, made when the
\* argument is truthy
set_column(fn, dataset_name, column, so_far) ==
  IF so_far.res.kind = "raise" \/ ~Truthy(column) THEN so_far
  ELSE LET call == ClientCall(fn, [dataset_name |-> dataset_name,
                                   column_spec_display_name |-> column]) IN
       Effect(Append(so_far.calls, call),
              Return(PyList(Append(so_far.res.value.val, ClientResponse(call)))))

\* lines 233-236
update_dataset_columns(dataset_name, columns_dtype, columns_nullable, order) ==
  IF Truthy(columns_dtype) \/ Truthy(columns_nullable)
  THEN update_columns(dataset_name, columns_dtype, columns_nullable, order)
  ELSE Effect(<<>>, Return(PyList(<<>>)))

\* lines 238-241
update_dataset_time(dataset_name, time_column, so_far) ==
  IF so_far.res.kind = "raise" \/ ~Truthy(time_column) THEN so_far
  ELSE LET r == update_primary_table(dataset_name, time_column) IN
       Effect(so_far.calls \o r.calls,
              Return(PyList(Append(so_far.res.value.val, r.res.value))))

\* lines 204-258
update_dataset(dataset_name, label_column, split_column, weight_column, time_column, columns_dtype, columns_nullable, order) ==
  LET cols == update_dataset_columns(dataset_name, columns_dtype,
                                     columns_nullable, order)
      time == update_dataset_time(dataset_name, time_column, cols)
      label == set_column("set_target_column", dataset_name, label_column, time)
      weight == set_column("set_weight_column", dataset_name, weight_column,
                           label)
  IN set_column("set_test_train_column", dataset_name, split_column, weight)

\* lines 372-404: line 391 compares gcs_input_uris with
\* input_path.split(",").strip(), and a list has no strip; nothing assigns
\* self.prediction_client, which line 398 reads
batch_predict(model_name, input_path, output_path) ==
  IF ~startswith_bq(input_path)
  THEN Effect(<<>>, Raise("AttributeError", "strip"))
  ELSE Effect(<<>>, Raise("AttributeError", "prediction_client"))

NoArgs ==
  [dataset_name |-> "", model_name |-> "", input_path |-> NoneVal,
   output_path |-> NoneVal, label_column |-> NoneVal, split_column |-> NoneVal,
   weight_column |-> NoneVal, time_column |-> NoneVal,
   columns_dtype |-> NoneVal, columns_nullable |-> NoneVal]

InitTables ==
  /\ sample = "tables_client"
  /\ \/ /\ tc_method = "import_data"
        /\ \E d \in DatasetNames, p \in InputPaths :
             tc_args = [NoArgs EXCEPT !.dataset_name = d, !.input_path = p]
     \/ /\ tc_method = "update_columns"
        /\ \E d \in DatasetNames, t \in ColumnsDtype, n \in ColumnsNullable :
             tc_args = [NoArgs EXCEPT !.dataset_name = d, !.columns_dtype = t,
                                      !.columns_nullable = n]
     \/ /\ tc_method = "update_dataset"
        /\ \E d \in DatasetNames, t \in ColumnsDtype, n \in ColumnsNullable,
              l \in ColumnArgs("label"), s \in ColumnArgs("split"),
              w \in ColumnArgs("weight"), tm \in ColumnArgs("time") :
             tc_args = [NoArgs EXCEPT !.dataset_name = d, !.columns_dtype = t,
                                      !.columns_nullable = n,
                                      !.label_column = l, !.split_column = s,
                                      !.weight_column = w, !.time_column = tm]
     \/ /\ tc_method = "batch_predict"
        /\ \E m \in ModelNames, i \in InputPaths, o \in OutputPaths :
             tc_args = [NoArgs EXCEPT !.model_name = m, !.input_path = i,
                                      !.output_path = o]
  /\ tc_calls = <<>> /\ tc_result = NoPoll /\ tc_pc = "call"
  /\ IdleDataproc /\ IdleDialogflow /\ IdlePoll /\ IdleCa /\ IdlePubsub
  /\ IdleEcho /\ IdleNox

\* the method has made the calls of e and ended as e says
Finish(e) ==
  /\ tc_calls' = e.calls
  /\ tc_result' = e.res
  /\ tc_pc' = "done"
  /\ UNCHANGED <<sample, not_tables, tc_method, tc_args>>

\* the names update_columns iterates over
ColumnNames ==
  keys_if_truthy(tc_args.columns_dtype)
    \cup keys_if_truthy(tc_args.columns_nullable)

TcImportData ==
  /\ sample = "tables_client" /\ tc_pc = "call" /\ tc_method = "import_data"
  /\ Finish(import_data(tc_args.dataset_name, tc_args.input_path))

TcUpdateColumns ==
  /\ sample = "tables_client" /\ tc_pc = "call" /\ tc_method = "update_columns"
  /\ \E order \in Perms(ColumnNames) :
       Finish(update_columns(tc_args.dataset_name, tc_args.columns_dtype,
                             tc_args.columns_nullable, order))

TcUpdateDataset ==
  /\ sample = "tables_client" /\ tc_pc = "call" /\ tc_method = "update_dataset"
  /\ \E order \in Perms(ColumnNames) :
       Finish(update_dataset(tc_args.dataset_name, tc_args.label_column,
                             tc_args.split_column, tc_args.weight_column,
                             tc_args.time_column, tc_args.columns_dtype,
                             tc_args.columns_nullable, order))

TcBatchPredict ==
  /\ sample = "tables_client" /\ tc_pc = "call" /\ tc_method = "batch_predict"
  /\ Finish(batch_predict(tc_args.model_name, tc_args.input_path,
                          tc_args.output_path))

TablesNext ==
  \/ TcImportData
  \/ TcUpdateColumns
  \/ TcUpdateDataset
  \/ TcBatchPredict

(***************************************************************************)
(* monitoring/api/v3/alerts-client/noxfile.py: get_pytest_env_vars.        *)
(* KOKORO_JOB_NAME is a string of tokens: "/" and names that hold no "/".  *)
(* A dict is a function from its keys.                                     *)
(***************************************************************************)
PROJECT_TABLE ==
  [v \in {"python2.7", "python3.6", "python3.7", "python3.8"} |->
     IF v = "python3.7" THEN "tmatsuo-test" ELSE "python-docs-samples-tests"]

TestConfigs == UNION {[ks -> BOOLEAN] : ks \in SUBSET {"use_multi_project"}}
JobNameTokens == {"/", "python3.7", "python3.6", "continuous"}
JobNames ==
  {NoneVal} \cup {PyStr(t) : t \in SeqsUpTo(JobNameTokens, MaxJobNameLen)}

\* TEST_CONFIG.get('use_multi_project', False)
use_multi_project(config) ==
  IF "use_multi_project" \in DOMAIN config THEN config["use_multi_project"]
  ELSE FALSE

\* the last part instead of the one before it
python_version_last(parts) == parts[Len(parts)]

\* line 58: parts[-2]
python_version(parts) == parts[Len(parts) - 1]

\* line 60: a part is a key of PROJECT_TABLE when it is one name, a key
in_project_table(part) == Len(part) = 1 /\ part[1] \in DOMAIN PROJECT_TABLE

\* lines 42-64
get_pytest_env_vars(config, job_name) ==
  IF ~use_multi_project(config) THEN <<>>
  ELSE IF job_name.type = "NoneType" \/ job_name.val = <<>> THEN <<>>
  ELSE LET parts == Split(job_name.val, "/") IN
       IF Len(parts) < 2 THEN <<>>
       ELSE IF ~in_project_table(python_version(parts)) THEN <<>>
       ELSE [k \in {"GOOGLE_CLOUD_PROJECT", "GCLOUD_PROJECT"} |->
               PROJECT_TABLE[python_version(parts)[1]]]

InitNox ==
  /\ sample = "noxfile"
  /\ test_config \in TestConfigs
  /\ kokoro_job_name \in JobNames
  /\ nox_ret = NoneVal
  /\ nox_pc = "call"
  /\ IdleDataproc /\ IdleDialogflow /\ IdlePoll /\ IdleCa /\ IdlePubsub
  /\ IdleEcho /\ IdleTables

NoxGetPytestEnvVars ==
  /\ sample = "noxfile" /\ nox_pc = "call"
  /\ nox_ret' = get_pytest_env_vars(test_config, kokoro_job_name)
  /\ nox_pc' = "done"
  /\ UNCHANGED <<sample, not_nox, test_config, kokoro_job_name>>

NoxNext == NoxGetPytestEnvVars

Init ==
  \/ InitDataproc \/ InitDialogflow \/ InitPoll \/ InitCa \/ InitPubsub
  \/ InitEcho \/ InitTables \/ InitNox

Next ==
  \/ DataprocNext \/ DialogflowNext \/ PollNext \/ CaNext \/ PubsubNext
  \/ EchoNext \/ TablesNext \/ NoxNext

Spec == Init /\ [][Next]_vars

\* main is a single thread that does nothing but poll while it is in the
\* loop of wait_for_job: neither statement of the loop is starved
LiveSpec == Spec /\ WF_vars(MainWaitJobGet) /\ WF_vars(MainWaitJobCheck)

(***************************************************************************)
(* Properties of submit_job_to_cluster.py                                  *)
(***************************************************************************)
PolledJobState == IF job_poll.kind = "ok" THEN job_poll.value.status.state ELSE "-"

\* C1: wait_for_job returns only in response to a get_job poll that reported
\* DONE, and returns the job of that poll; a poll that reports ERROR makes it
\* raise Exception(job.status.details); a poll that reports any other state
\* makes it neither return nor raise.
C1_WaitForJob ==
  sample = "dataproc" =>
    /\ wfj.kind = "return" =>
         /\ PolledJobState = "DONE"
         /\ wfj.value = job_poll.value
    /\ (PolledJobState = "DONE" /\ main_pc # "wait_job_check") =>
         wfj.kind = "return"
    /\ (PolledJobState = "ERROR" /\ main_pc # "wait_job_check") =>
         wfj = Raise("Exception", job_poll.value.status.details)
    /\ (wfj.kind = "raise" /\ wfj.exc.type = "Exception") =>
         PolledJobState = "ERROR"
    /\ (job_poll.kind = "ok" /\ PolledJobState \notin {"DONE", "ERROR"}) =>
         /\ wfj = NoPoll
         /\ main_pc \in {"wait_job", "wait_job_check"}

\* wait_for_job has returned the job of a poll that reported DONE, after a
\* job that was cancelled or still running would have kept it polling
C1_Witness ==
  /\ sample = "dataproc"
  /\ wfj.kind = "return"
  /\ wfj.value.status.state = "DONE"
  /\ Ret("wait_for_job") \in {calls[i] : i \in 1..Len(calls)}

\* the clusters of the last listing that have the requested name
PolledOwn ==
  IF cluster_poll.kind = "ok"
  THEN {cluster_poll.value[i] : i \in {k \in 1..Len(cluster_poll.value) :
          cluster_poll.value[k].cluster_name = cluster_name}}
  ELSE {}
PolledOthers ==
  IF cluster_poll.kind = "ok"
  THEN {cluster_poll.value[i] : i \in {k \in 1..Len(cluster_poll.value) :
          cluster_poll.value[k].cluster_name # cluster_name}}
  ELSE {}

\* C2: wait_for_cluster_creation returns only after a list_clusters poll that
\* showed the cluster of the requested name RUNNING, raises
\* Exception(cluster.status.detail) when a poll shows that cluster in ERROR,
\* and a poll that shows only other clusters RUNNING or in ERROR makes it
\* neither return nor raise.
C2_WaitForClusterCreation ==
  sample = "dataproc" =>
    /\ wfc.kind = "return" =>
         \E c \in PolledOwn : c.status.state = "RUNNING"
    /\ \A c \in PolledOwn :
         (c.status.state = "ERROR" /\ main_pc # "wait_cluster_scan") =>
           wfc = Raise("Exception", c.status.detail)
    /\ (wfc.kind = "raise" /\ wfc.exc.type = "Exception") =>
         \E c \in PolledOwn :
           c.status.state = "ERROR" /\ wfc.exc.arg = c.status.detail
    /\ (cluster_poll.kind = "ok"
        /\ \A c \in PolledOwn : c.status.state \notin {"RUNNING", "ERROR"}) =>
         /\ wfc = NoPoll
         /\ main_pc \in {"wait_cluster", "wait_cluster_scan"}

\* wait_for_cluster_creation has returned on a listing in which another
\* cluster is in state ERROR
C2_Witness ==
  /\ sample = "dataproc"
  /\ wfc.kind = "return"
  /\ \E c \in PolledOthers : c.status.state = "ERROR"

\* a poll whose RPC raised, or that reported state ERROR
FailedJobPoll == job_poll.kind = "raise" \/ PolledJobState = "ERROR"
FailedClusterPoll ==
  \/ cluster_poll.kind = "raise"
  \/ \E c \in PolledOwn : c.status.state = "ERROR"

\* a failed poll whose pass has ended has ended the wait, and main with it
C3_Propagates ==
  sample = "dataproc" =>
    /\ (FailedJobPoll /\ main_pc # "wait_job_check") =>
         /\ job_poll.kind = "raise" => wfj = job_poll
         /\ PolledJobState = "ERROR" =>
              wfj.kind = "raise" /\ wfj.exc.type = "Exception"
         /\ main_pc \in {"finally", "done"}
         /\ main_pc = "finally" => exc = wfj.exc
    /\ (FailedClusterPoll /\ main_pc # "wait_cluster_scan") =>
         /\ cluster_poll.kind = "raise" => wfc = cluster_poll
         /\ (\E c \in PolledOwn : c.status.state = "ERROR") =>
              wfc.kind = "raise" /\ wfc.exc.type = "Exception"
         /\ main_pc \in {"finally", "done"}
         /\ main_pc = "finally" => exc = wfc.exc

\* C3: neither polling loop retries: an exception of list_clusters or of
\* get_job reaches the caller as it is, and one poll that reports ERROR ends
\* the wait with an Exception; after either, the loop makes no further poll.
C3_NoRetry ==
  /\ []C3_Propagates
  /\ [][FailedJobPoll => ~MainWaitJobGet]_vars
  /\ [][FailedClusterPoll => ~MainWaitClusterList]_vars

\* get_job has raised and wait_for_job has passed the exception on
C3_Witness ==
  /\ sample = "dataproc"
  /\ job_poll.kind = "raise"
  /\ wfj = RpcFail
  /\ exc = RpcFail.exc

\* C4: under fair polling wait_for_job ends, by returning or by raising, for
\* every job that reaches a final state (DONE, ERROR or CANCELLED) and stays
\* in it.
C4_WaitForJobTerminates ==
  <>[](job.status.state \in FinalJobStates) => <>(wfj.kind \in {"return", "raise"})

Called(fn) == {i \in 1..Len(calls) : calls[i] = Call(fn)}
Returned(fn) == {i \in 1..Len(calls) : calls[i] = Ret(fn)}

\* C5: main calls submit_pyspark_job only after upload_pyspark_file has
\* returned, so that the job's main file is in the bucket, and, with
\* create_new_cluster, only after create_cluster and then
\* wait_for_cluster_creation have returned; it calls download_output only
\* after wait_for_job has returned a job that is DONE.
C5_MainOrder ==
  sample = "dataproc" =>
    /\ \A s \in Called("submit_pyspark_job") :
         /\ \E u \in Returned("upload_pyspark_file") : u < s
         /\ spark_filename \in bucket
         /\ create_new_cluster =>
              /\ \E c \in Returned("create_cluster") :
                   \E w \in Returned("wait_for_cluster_creation") : c < w /\ w < s
              /\ wfc.kind = "return"
              /\ \E c \in PolledOwn : c.status.state = "RUNNING"
    /\ submitted # NoneVal => submitted.pyspark_job.main_python_file_uri \in bucket
    /\ \A d \in Called("download_output") :
         /\ \E w \in Returned("wait_for_job") : w < d
         /\ wfj.kind = "return"
         /\ wfj.value.status.state = "DONE"

\* main has created the cluster, run the job and returned its output
C5_Witness ==
  /\ sample = "dataproc"
  /\ create_new_cluster
  /\ main_outcome.kind = "return"
  /\ Called("submit_pyspark_job") # {}
  /\ Called("download_output") # {}

RECURSIVE LastIndex(_, _, _)
LastIndex(s, ch, i) ==
  IF i = 0 THEN 0
  ELSE IF s[i] = ch THEN i
  ELSE LastIndex(s, ch, i - 1)

WellFormedZone(z) == z.type = "str" /\ LastIndex(z.val, "-", Len(z.val)) # 0

\* C6: get_region_from_zone returns a well-formed zone without its last
\* '-'-separated component, and raises ValueError('Invalid zone provided,
\* please check your input.') for a zone that is no string and for a string
\* without '-'.
C6_RegionFromZone ==
  (sample = "dataproc" /\ ~global_region /\ main_pc # "get_client") =>
    IF WellFormedZone(zone)
    THEN region = PyStr(SubSeq(zone.val, 1, LastIndex(zone.val, "-", Len(zone.val)) - 1))
    ELSE /\ main_outcome = Raise("ValueError", InvalidZoneMessage)
         /\ region = NoneVal

(***************************************************************************)
(* Properties of mic_stream_audio_response.py                              *)
(***************************************************************************)
\* a request that carries the configuration and no audio
IsConfigRequest(r) ==
  /\ r.session # <<>>
  /\ r.query_input # NoneVal
  /\ r.output_audio_config # NoneVal
  /\ r.input_audio = NoAudio

\* a request that carries audio and nothing else
IsAudioOnlyRequest(r) ==
  /\ r.session = <<>>
  /\ r.query_input = NoneVal
  /\ r.output_audio_config = NoneVal
  /\ r.input_audio \in AudioChunks

\* C7: the first item a run of Stream._request_generator yields is the
\* configuration request (session, query_input, output_audio_config, no
\* audio), it is yielded once, and every item after it carries input_audio
\* only.
C7_ConfigFirstOnce ==
  sample = "dialogflow" =>
    /\ gen_pc \in {"loop", "returned"} => Len(yielded) >= 1
    /\ gen_pc \in {"created", "raised"} => yielded = <<>>
    /\ Len(yielded) >= 1 =>
         /\ IsConfigRequest(yielded[1])
         /\ yielded[1].session = session_path(project_id, session_id)
         /\ yielded[1].query_input.audio_config.language_code = language_code
    /\ \A i \in 2..Len(yielded) :
         IsAudioOnlyRequest(yielded[i]) /\ ~IsConfigRequest(yielded[i])

\* a generator of a later pass of stream has yielded the configuration and
\* two chunks of audio and has returned
C7_Witness ==
  /\ sample = "dialogflow"
  /\ runs = 2
  /\ gen_pc = "returned"
  /\ Len(yielded) = 3

(***************************************************************************)
(* Properties of poll_operation_sample.py                                  *)
(***************************************************************************)
\* C8: poll_operation_sample makes the actions (get_operation, print, sleep
\* 10 s)* and then one last (get_operation, print): every get_operation
\* sends the same request, every operation received is printed, one sleep
\* lies between two polls, the first operation whose done is true ends the
\* loop, and nothing follows its print.
C8_PollSequence ==
  sample = "poll_operation" =>
    /\ \A i \in 1..Len(trace) :
         /\ i % 3 = 1 =>
              /\ trace[i].act = "get_operation"
              /\ trace[i].arg = GetOperationRequest(operation_name)
         /\ i % 3 = 2 =>
              /\ trace[i].act = "print"
              /\ trace[i - 1].got = RpcOk(trace[i].arg)
              /\ trace[i].arg.done => i = Len(trace)
         /\ i % 3 = 0 =>
              /\ trace[i] = SleepEvent(10)
              /\ ~trace[i - 1].arg.done
    /\ poll_pc = "done" =>
         /\ Len(trace) % 3 = 2
         /\ trace[Len(trace)].arg.done
    /\ poll_pc = "print" <=>
         (Len(trace) % 3 = 1 /\ trace[Len(trace)].got.kind = "ok")
    /\ poll_pc = "sleep" =>
         (Len(trace) % 3 = 2 /\ ~trace[Len(trace)].arg.done)
    /\ (Len(trace) % 3 = 2 /\ trace[Len(trace)].arg.done) =>
         poll_pc \in {"check", "done"}

\* the sample has polled twice, slept in between, and ended on the second
\* operation
C8_Witness ==
  /\ sample = "poll_operation"
  /\ poll_pc = "done"
  /\ Len(trace) = 5

(***************************************************************************)
(* Properties of the tests of the Container Analysis samples               *)
(***************************************************************************)
Succeeded(fn) ==
  {i \in 1..Len(ca_log) : ca_log[i].fn = fn /\ ca_log[i].res.kind = "return"}
Calls(fn) == {i \in 1..Len(ca_log) : ca_log[i].fn = fn}
NotFound == Raise("NotFound", "")

CountingTest ==
  /\ sample = "container_analysis"
  /\ test_method \in {"test_occurrences_for_image", "test_occurrences_for_note"}

AssertHeld(k) == k < Len(asserted) \/ pubsub_outcome # "failed"

ExpectedEchoData(body) ==
  <<"{", "\"", "message", "\"", ":">>
  \o (IF "message" \notin DOMAIN body THEN <<"\"", "", "\"">>
      ELSE IF body["message"].json = "string"
      THEN <<"\"", body["message"].text, "\"">>
      ELSE <<body["message"].text>>)
  \o <<"}">>

C12_EchoAnswers ==
  (sample = "echo" /\ echo_body \in JsonObjects /\ echo_pc # "view") =>
    /\ echo_pc = "sent"
    /\ echo_exc = NoExc
    /\ echo_response.status = OK
    /\ echo_response.data = ExpectedEchoData(echo_body)

\* a body with another key and no message is answered with the empty string
C12_Witness ==
  /\ sample = "echo" /\ echo_pc = "sent"
  /\ echo_body \in JsonObjects
  /\ DOMAIN echo_body = {"other"}
  /\ echo_response.data = <<"{", "\"", "message", "\"", ":", "\"", "", "\"", "}">>

(***************************************************************************)
(* C13: update_columns makes exactly one update_column_spec call for each  *)
(* distinct column name that is a key of columns_dtype or of               *)
(* columns_nullable, with that column's type_code and nullable (None for   *)
(* the one not supplied), and returns exactly the responses of those       *)
(* calls, also when one of the two dicts is left at None.                  *)
(***************************************************************************)
KeysOf(d) == IF d.type = "dict" THEN DOMAIN d.val ELSE {}
ValueOf(d, c) == IF c \in KeysOf(d) THEN d.val[c] ELSE NoneVal
NamesGiven == KeysOf(tc_args.columns_dtype) \cup KeysOf(tc_args.columns_nullable)

ColumnSpecCall(c) ==
  ClientCall("update_column_spec",
             [dataset_name |-> tc_args.dataset_name,
              column_spec_display_name |-> c,
              type_code |-> ValueOf(tc_args.columns_dtype, c),
              nullable |-> ValueOf(tc_args.columns_nullable, c)])

\* the first n calls are the column spec calls, one for each name given
ColumnCallsFirst(n) ==
  /\ n = Cardinality(NamesGiven)
  /\ Len(tc_calls) >= n
  /\ \A c \in NamesGiven :
       Cardinality({i \in 1..n : tc_calls[i] = ColumnSpecCall(c)}) = 1

ResponsesOfCalls ==
  /\ tc_result.kind = "return"
  /\ tc_result.value = PyList([i \in 1..Len(tc_calls) |-> ClientResponse(tc_calls[i])])

C13_UpdateColumns ==
  (sample = "tables_client" /\ tc_method = "update_columns" /\ tc_pc = "done") =>
    /\ ColumnCallsFirst(Len(tc_calls))
    /\ ResponsesOfCalls

(***************************************************************************)
(* C14: import_data returns the operation the client's import_data call    *)
(* answered with, for a BigQuery path and for a Cloud Storage path.        *)
(***************************************************************************)
C14_ImportDataReturnsOperation ==
  (sample = "tables_client" /\ tc_method = "import_data" /\ tc_pc = "done") =>
    /\ Len(tc_calls) = 1
    /\ tc_calls[1].fn = "import_data"
    /\ tc_result = Return(ClientResponse(tc_calls[1]))

(***************************************************************************)
(* C15: update_dataset makes only the updates whose argument was given, in *)
(* the order column specs, time column, label column, weight column, split *)
(* column, and returns one response per update in that order; with no      *)
(* optional argument it makes no call and returns the empty list.          *)
(***************************************************************************)
Given(v) == v # NoneVal

ColumnCall(fn, kw, column) ==
  IF ~Given(column) THEN <<>>
  ELSE IF kw = "column_spec_name"
  THEN <<ClientCall(fn, [dataset_name |-> tc_args.dataset_name,
                         column_spec_name |-> column])>>
  ELSE <<ClientCall(fn, [dataset_name |-> tc_args.dataset_name,
                         column_spec_display_name |-> column])>>

CallsAfterColumns ==
  ColumnCall("set_time_column", "column_spec_name", tc_args.time_column)
  \o ColumnCall("set_target_column", "display", tc_args.label_column)
  \o ColumnCall("set_weight_column", "display", tc_args.weight_column)
  \o ColumnCall("set_test_train_column", "display", tc_args.split_column)

C15_UpdateDatasetOrder ==
  (sample = "tables_client" /\ tc_method = "update_dataset" /\ tc_pc = "done") =>
    LET n == Cardinality(NamesGiven) IN
    /\ ColumnCallsFirst(n)
    /\ SubSeq(tc_calls, n + 1, Len(tc_calls)) = CallsAfterColumns
    /\ ResponsesOfCalls

(***************************************************************************)
(* C16: batch_predict makes one batch_predict call with exactly one input  *)
(* source and one output destination (BigQuery iff the path starts with    *)
(* 'bq', else the list of the comma-separated Cloud Storage URIs and the   *)
(* output prefix) and returns the operation the call answered with.        *)
(***************************************************************************)
C16_BatchPredictSources ==
  (sample = "tables_client" /\ tc_method = "batch_predict" /\ tc_pc = "done") =>
    /\ tc_result.kind = "return"
    /\ Len(tc_calls) = 1
    /\ tc_calls[1].fn = "batch_predict"
    /\ tc_result.value = ClientResponse(tc_calls[1])
    /\ LET kw == tc_calls[1].kwargs IN
       /\ kw.model_name = tc_args.model_name
       /\ kw.bigquery_input_uri =
            IF startswith_bq(tc_args.input_path)
            THEN tc_args.input_path ELSE NoneVal
       /\ kw.gcs_input_uris =
            IF startswith_bq(tc_args.input_path)
            THEN NoneVal ELSE split_commas(tc_args.input_path)
       /\ kw.bigquery_output_uri =
            IF startswith_bq(tc_args.output_path)
            THEN tc_args.output_path ELSE NoneVal
       /\ kw.gcs_output_uri_prefix =
            IF startswith_bq(tc_args.output_path)
            THEN NoneVal ELSE tc_args.output_path

(***************************************************************************)
(* C17: get_pytest_env_vars returns the empty dict, or a dict that sets    *)
(* GOOGLE_CLOUD_PROJECT and GCLOUD_PROJECT, and nothing else, to           *)
(* PROJECT_TABLE[v] for v the second-to-last '/'-separated part of         *)
(* KOKORO_JOB_NAME; it is empty exactly when use_multi_project is false or *)
(* absent, the name is unset or empty, the name has fewer than two parts   *)
(* (no '/'), or v is not a key of PROJECT_TABLE.                           *)
(***************************************************************************)
LastSlash(name) == LastIndex(name, "/", Len(name))

\* what stands between the last '/' and the '/' before it, or the start
SecondToLastPart(name) ==
  SubSeq(name, LastIndex(name, "/", LastSlash(name) - 1) + 1, LastSlash(name) - 1)

SelectsProject ==
  /\ "use_multi_project" \in DOMAIN test_config
  /\ test_config["use_multi_project"]
  /\ kokoro_job_name # NoneVal
  /\ LastSlash(kokoro_job_name.val) # 0
  /\ \E v \in DOMAIN PROJECT_TABLE : SecondToLastPart(kokoro_job_name.val) = <<v>>

C17_PytestEnvVars ==
  (sample = "noxfile" /\ nox_pc = "done") =>
    IF SelectsProject
    THEN /\ DOMAIN nox_ret = {"GOOGLE_CLOUD_PROJECT", "GCLOUD_PROJECT"}
         /\ nox_ret["GOOGLE_CLOUD_PROJECT"] = nox_ret["GCLOUD_PROJECT"]
         /\ nox_ret["GCLOUD_PROJECT"] =
              PROJECT_TABLE[SecondToLastPart(kokoro_job_name.val)[1]]
    ELSE DOMAIN nox_ret = {}

\* a job name of three parts whose last part is a key of another project
C17_Witness ==
  /\ sample = "noxfile" /\ nox_pc = "done"
  /\ kokoro_job_name = PyStr(<<"continuous", "/", "python3.7", "/", "python3.6">>)
  /\ DOMAIN nox_ret = {"GOOGLE_CLOUD_PROJECT", "GCLOUD_PROJECT"}
  /\ nox_ret["GOOGLE_CLOUD_PROJECT"] = "tmatsuo-test"

====
